---- MODULE Spec2Model ----
(***************************************************************************)
(* 3D bin packing solver: geometry model, corner-point placement engine,   *)
(* Solution bookkeeping, First Fit Decreasing, the neighborhood operators  *)
(* and the two search drivers (LocalSearch, SimulatedAnnealing).           *)
(*                                                                         *)
(* Python objects are modelled on a heap: mem.I holds the Item objects,    *)
(* mem.B the Bin objects and mem.S the Solution objects; a reference is an *)
(* index into the corresponding sequence (0 is the null reference).  Lists *)
(* held by an object are sequences of references.  None is NoPos for a     *)
(* position, NoBin for assigned_bin and NoFit for the cached fitness.      *)
(***************************************************************************)
EXTENDS Integers, Sequences, FiniteSets, TLC

\* ------------------------------------------------------------------------
\* Bounds of the model
\* ------------------------------------------------------------------------
\* LocalSearch(max_iterations=...)
MaxIterations == 2
\* SimulatedAnnealing: the largest number of temperature levels of a run
MaxLevels == 3
\* SimulatedAnnealing(min_temp=...)
MinTemp == 128
\* SimulatedAnnealing(iterations_per_temp=...)
IterationsPerTemp == 1
\* number of public-API calls made in the API specification
MaxApiCalls == 2

\* ------------------------------------------------------------------------
\* Problem instances: bin dimensions and the items' (length, width, height);
\* item k of an instance has id k.
\* ------------------------------------------------------------------------
Instances ==
  << [bin |-> <<8, 1, 1>>,
      items |-> << <<5, 1, 1>>, <<2, 1, 1>>, <<1, 1, 1>>, <<1, 1, 1>> >>],
     [bin |-> <<2, 2, 2>>,
      items |-> << <<2, 2, 1>>, <<2, 2, 1>>, <<2, 1, 1>> >>],
     [bin |-> <<8, 1, 1>>,
      items |-> << <<4, 1, 1>>, <<3, 1, 1>>, <<1, 1, 1>> >>],
     [bin |-> <<8, 1, 1>>,
      items |-> << <<5, 1, 1>>, <<4, 1, 1>>, <<1, 1, 1>>, <<1, 1, 1>>, <<1, 1, 1>> >>],
     [bin |-> <<8, 1, 1>>,
      items |-> << <<9, 1, 1>>, <<4, 1, 1>>, <<1, 1, 1>> >>] >>

NoPos == <<>>
NoBin == -1
NoFit == <<>>
NoSol == 0
NoAnnealer == <<>>
NoTemp == <<0, 1>>

EmptyMem == [I |-> <<>>, B |-> <<>>, S |-> <<>>]

\* ------------------------------------------------------------------------
\* Item (src/problem/item.py)
\* ------------------------------------------------------------------------
Item(item_id, length, width, height) ==
  [id |-> item_id, length |-> length, width |-> width, height |-> height,
   position |-> NoPos, rotation |-> 0, assigned_bin |-> NoBin]

Item_get_volume(it) == it.length * it.width * it.height

\* the axes (1 = length, 2 = width, 3 = height) that rotation 0..5 puts
\* along x, y and z
\* Faulty variant of RotationAxes: index 3 repeats index 2
AxesWithRepeat ==
  << <<1, 2, 3>>, <<1, 3, 2>>, <<2, 1, 3>>, <<2, 1, 3>>, <<3, 1, 2>>, <<3, 2, 1>> >>

RotationAxes ==
  << <<1, 2, 3>>, <<1, 3, 2>>, <<2, 1, 3>>, <<2, 3, 1>>, <<3, 1, 2>>, <<3, 2, 1>> >>

get_dimensions(it) ==
  LET rotations(d, a) == <<d[a[1]], d[a[2]], d[a[3]]>>
  IN rotations(<<it.length, it.width, it.height>>, RotationAxes[it.rotation + 1])

is_placed(it) == it.position # NoPos

is_assigned(it) == it.assigned_bin # NoBin

\* mem with Item object r given position (x, y, z)
set_position(mem, r, x, y, z) == [mem EXCEPT !.I[r].position = <<x, y, z>>]

\* mem with Item object r given the rotation; an index outside 0..5 raises
\* and leaves the item as it was
set_rotation(mem, r, rotation) ==
  IF 0 <= rotation /\ rotation <= 5
  THEN [mem EXCEPT !.I[r].rotation = rotation]
  ELSE mem

\* set_rotation raises ValueError("Rotation must be between 0 and 5")
set_rotation_raises(rotation) == ~(0 <= rotation /\ rotation <= 5)

assign_to_bin(mem, r, bin_id) == [mem EXCEPT !.I[r].assigned_bin = bin_id]

Item_reset(mem, r) ==
  [mem EXCEPT !.I[r].position = NoPos, !.I[r].rotation = 0,
              !.I[r].assigned_bin = NoBin]

\* <<min corner, max corner>> of a placed item
get_bounds(it) ==
  LET bounds(p, d) == << p, <<p[1] + d[1], p[2] + d[2], p[3] + d[3]>> >>
  IN bounds(it.position, get_dimensions(it))

\* ------------------------------------------------------------------------
\* Bin (src/problem/bin.py)
\* ------------------------------------------------------------------------
Bin(bin_id, length, width, height) ==
  [id |-> bin_id, length |-> length, width |-> width, height |-> height,
   items |-> <<>>]

Bin_get_volume(bin) == bin.length * bin.width * bin.height

RECURSIVE SumVolumes(_, _, _)
SumVolumes(mem, items, k) ==
  IF k > Len(items) THEN 0
  ELSE Item_get_volume(mem.I[items[k]]) + SumVolumes(mem, items, k + 1)

get_used_volume(mem, b) == SumVolumes(mem, mem.B[b].items, 1)

\* "item in self.items": Item.__eq__ compares ids
ItemIn(mem, r, items) ==
  \E k \in 1..Len(items) : mem.I[items[k]].id = mem.I[r].id

\* Faulty variant of add_item: the item is appended but not assigned
append_item(mem, b, r) ==
  IF ~ItemIn(mem, r, mem.B[b].items)
  THEN [mem EXCEPT !.B[b].items = Append(@, r)]
  ELSE mem

add_item(mem, b, r) ==
  IF ~ItemIn(mem, r, mem.B[b].items)
  THEN assign_to_bin([mem EXCEPT !.B[b].items = Append(@, r)], r, mem.B[b].id)
  ELSE mem

\* list.remove drops the first element equal (by id) to the argument;
\* reset() is called on the argument
remove_item(mem, b, r) ==
  LET items == mem.B[b].items
  IN IF ItemIn(mem, r, items)
     THEN LET k == CHOOSE j \in 1..Len(items) :
                     /\ mem.I[items[j]].id = mem.I[r].id
                     /\ \A i \in 1..(j - 1) : mem.I[items[i]].id # mem.I[r].id
          IN Item_reset([mem EXCEPT !.B[b].items =
                           SubSeq(items, 1, k - 1) \o SubSeq(items, k + 1, Len(items))], r)
     ELSE mem

RECURSIVE ResetAll(_, _, _)
ResetAll(mem, items, k) ==
  IF k > Len(items) THEN mem
  ELSE ResetAll(Item_reset(mem, items[k]), items, k + 1)

Bin_clear(mem, b) ==
  [ResetAll(mem, mem.B[b].items, 1) EXCEPT !.B[b].items = <<>>]

is_empty(bin) == Len(bin.items) = 0

\* Faulty variant of check_overlap: boxes that share a face count as well
overlap_or_touch(item1, item2) ==
  IF ~is_placed(item1) \/ ~is_placed(item2) THEN FALSE
  ELSE LET overlap(b1, b2) ==
             /\ b1[1][1] <= b2[2][1] /\ b1[2][1] >= b2[1][1]
             /\ b1[1][2] <= b2[2][2] /\ b1[2][2] >= b2[1][2]
             /\ b1[1][3] <= b2[2][3] /\ b1[2][3] >= b2[1][3]
       IN overlap(get_bounds(item1), get_bounds(item2))

check_overlap(item1, item2) ==
  IF ~is_placed(item1) \/ ~is_placed(item2) THEN FALSE
  ELSE LET overlap(b1, b2) ==
             LET x_overlap == b1[1][1] < b2[2][1] /\ b1[2][1] > b2[1][1]
                 y_overlap == b1[1][2] < b2[2][2] /\ b1[2][2] > b2[1][2]
                 z_overlap == b1[1][3] < b2[2][3] /\ b1[2][3] > b2[1][3]
             IN x_overlap /\ y_overlap /\ z_overlap
       IN overlap(get_bounds(item1), get_bounds(item2))

has_overlaps(mem, b) ==
  LET items == mem.B[b].items
  IN \E i \in 1..Len(items) : \E j \in (i + 1)..Len(items) :
       check_overlap(mem.I[items[i]], mem.I[items[j]])

is_within_bounds(bin, it) ==
  IF ~is_placed(it) THEN FALSE
  ELSE LET inside(bd) ==
             /\ bd[1][1] >= 0 /\ bd[1][2] >= 0 /\ bd[1][3] >= 0
             /\ bd[2][1] <= bin.length
             /\ bd[2][2] <= bin.width
             /\ bd[2][3] <= bin.height
       IN inside(get_bounds(it))

is_feasible(mem, b) ==
  LET items == mem.B[b].items
  IN /\ \A k \in 1..Len(items) :
          /\ is_placed(mem.I[items[k]])
          /\ is_within_bounds(mem.B[b], mem.I[items[k]])
     /\ ~has_overlaps(mem, b)

\* Faulty variant of can_fit_item_at_position: the overlap test is left out
can_fit_within_bounds(mem, b, r, x, y, z, rotation) ==
  is_within_bounds(mem.B[b], [mem.I[r] EXCEPT !.rotation = rotation,
                                              !.position = <<x, y, z>>])

\* Faulty variant of can_fit_item_at_position: the bounds are not checked
can_fit_clear_of_items(mem, b, r, x, y, z, rotation) ==
  LET clear(it, items) ==
        \A k \in 1..Len(items) :
          mem.I[items[k]].id # it.id => ~check_overlap(it, mem.I[items[k]])
  IN clear([mem.I[r] EXCEPT !.rotation = rotation, !.position = <<x, y, z>>],
           mem.B[b].items)

\* the item is given the rotation and position, checked, and restored
can_fit_item_at_position(mem, b, r, x, y, z, rotation) ==
  LET fits(it, items) ==
        /\ is_within_bounds(mem.B[b], it)
        /\ \A k \in 1..Len(items) :
             mem.I[items[k]].id # it.id => ~check_overlap(it, mem.I[items[k]])
  IN fits([mem.I[r] EXCEPT !.rotation = rotation, !.position = <<x, y, z>>],
          mem.B[b].items)

\* ------------------------------------------------------------------------
\* Placement engine (src/utils/placement.py)
\* ------------------------------------------------------------------------
\* sort key (z, x, y)
PointLeq(p, q) ==
  \/ p[3] < q[3]
  \/ p[3] = q[3] /\ p[1] < q[1]
  \/ p[3] = q[3] /\ p[1] = q[1] /\ p[2] <= q[2]

\* the seven points emitted for one placed item
CornerPointsOf(bd) ==
  LET lo == bd[1]
      hi == bd[2]
  IN { <<hi[1], lo[2], lo[3]>>, <<lo[1], hi[2], lo[3]>>, <<lo[1], lo[2], hi[3]>>,
       <<hi[1], hi[2], lo[3]>>, <<hi[1], lo[2], hi[3]>>, <<lo[1], hi[2], hi[3]>>,
       <<hi[1], hi[2], hi[3]>> }

\* The candidate positions, duplicates removed, as a set; the list the code
\* returns is this set in ascending (z, x, y) order, which is the order
\* first_fit walks it in.
generate_corner_points(mem, b, item_dims) ==
  LET bin == mem.B[b]
      placed == {k \in 1..Len(bin.items) : is_placed(mem.I[bin.items[k]])}
      candidates == {<<0, 0, 0>>} \cup
                    UNION {CornerPointsOf(get_bounds(mem.I[bin.items[k]])) : k \in placed}
  IN IF is_empty(bin) THEN {<<0, 0, 0>>}
     ELSE {p \in candidates :
             /\ p[1] + item_dims[1] <= bin.length
             /\ p[2] + item_dims[2] <= bin.width
             /\ p[3] + item_dims[3] <= bin.height}

\* "for x, y, z in candidates": the first candidate of the sorted list at
\* which the item fits, NoPos if there is none
RECURSIVE first_fit(_, _, _, _, _)
first_fit(mem, b, r, rotation, candidates) ==
  IF candidates = {} THEN NoPos
  ELSE LET try(p) ==
             IF can_fit_item_at_position(mem, b, r, p[1], p[2], p[3], rotation)
             THEN p
             ELSE first_fit(mem, b, r, rotation, candidates \ {p})
       IN try(CHOOSE c \in candidates : \A q \in candidates : PointLeq(c, q))

find_position_with_rotation(mem, b, r, rotation) ==
  LET item_dims == get_dimensions([mem.I[r] EXCEPT !.rotation = rotation])
  IN first_fit(mem, b, r, rotation, generate_corner_points(mem, b, item_dims))

\* Faulty variant of find_best_loop: "if z <= best_height", so that the last
\* of the rotations with the best z is kept
RECURSIVE keep_last_rotation(_, _, _, _, _)
keep_last_rotation(mem, b, r, rotation, best_position) ==
  IF rotation > 5 THEN best_position
  ELSE LET better(result) ==
             IF result # NoPos /\ (best_position = <<>> \/ result[3] <= best_position[3])
             THEN <<result[1], result[2], result[3], rotation>>
             ELSE best_position
       IN keep_last_rotation(mem, b, r, rotation + 1,
                             better(find_position_with_rotation(mem, b, r, rotation)))

RECURSIVE find_best_loop(_, _, _, _, _)
find_best_loop(mem, b, r, rotation, best_position) ==
  IF rotation > 5 THEN best_position
  ELSE LET better(result) ==
             IF result # NoPos /\ (best_position = <<>> \/ result[3] < best_position[3])
             THEN <<result[1], result[2], result[3], rotation>>
             ELSE best_position
       IN find_best_loop(mem, b, r, rotation + 1,
                         better(find_position_with_rotation(mem, b, r, rotation)))

\* <<x, y, z, rotation>>, or <<>> when no rotation has a valid position
find_best_position_for_item(mem, b, r) == find_best_loop(mem, b, r, 0, <<>>)

\* Faulty variant of PlaceItem: the item is not added to the bin
place_outside(mem, b, r, result) ==
  set_position(set_rotation(mem, r, result[4]), r, result[1], result[2], result[3])

\* Faulty variant of PlaceItem: the rotation found is not set
place_unrotated(mem, b, r, result) ==
  add_item(set_position(mem, r, result[1], result[2], result[3]), b, r)

\* place item r in bin b as the result of find_best_position_for_item says
PlaceItem(mem, b, r, result) ==
  add_item(set_position(set_rotation(mem, r, result[4]),
                        r, result[1], result[2], result[3]), b, r)

\* sorted(items, key=volume, reverse=True): stable, largest first
RECURSIVE InsertByVolume(_, _, _)
InsertByVolume(mem, sorted, r) ==
  IF sorted = <<>> THEN <<r>>
  ELSE IF Item_get_volume(mem.I[Head(sorted)]) >= Item_get_volume(mem.I[r])
       THEN <<Head(sorted)>> \o InsertByVolume(mem, Tail(sorted), r)
       ELSE <<r>> \o sorted

RECURSIVE SortByVolume(_, _, _, _)
SortByVolume(mem, items, k, sorted) ==
  IF k > Len(items) THEN sorted
  ELSE SortByVolume(mem, items, k + 1, InsertByVolume(mem, sorted, items[k]))

RECURSIVE pack_loop(_, _, _, _, _, _)
pack_loop(mem, b, items_to_pack, k, packed, unpacked) ==
  IF k > Len(items_to_pack)
  THEN [mem |-> mem, packed |-> packed, unpacked |-> unpacked]
  ELSE LET place(item, result) ==
             IF result # <<>>
             THEN pack_loop(PlaceItem(mem, b, item, result), b, items_to_pack, k + 1,
                            Append(packed, item), unpacked)
             ELSE pack_loop(mem, b, items_to_pack, k + 1, packed, Append(unpacked, item))
       IN place(items_to_pack[k], find_best_position_for_item(mem, b, items_to_pack[k]))

\* [mem, packed, unpacked]
pack_items_in_bin(mem, b, items, sort_items) ==
  pack_loop(mem, b,
            IF sort_items THEN SortByVolume(mem, items, 1, <<>>) ELSE items,
            1, <<>>, <<>>)

\* Faulty variant of repack_bin: packs the bin's items in the reverse of
\* their order in the bin, without sorting them.
repack_in_reverse(mem, b) ==
  LET items == mem.B[b].items
  IN pack_items_in_bin(Bin_clear(mem, b), b,
                       [k \in 1..Len(items) |-> items[Len(items) + 1 - k]], FALSE)

repack_bin(mem, b) ==
  LET items == mem.B[b].items
  IN pack_items_in_bin(Bin_clear(mem, b), b, items, TRUE)

\* ------------------------------------------------------------------------
\* Solution (src/problem/solution.py)
\* ------------------------------------------------------------------------
\* weights of calculate_fitness
WBins == 1000
WWaste == 10
WStdDev == 50
WUnpacked == 10000
WInfeasible == 5000

RECURSIVE new_items_loop(_, _, _, _)
new_items_loop(mem, items, k, refs) ==
  IF k > Len(items) THEN [mem |-> mem, refs |-> refs]
  ELSE LET item == items[k]
           new_item == Item(item.id, item.length, item.width, item.height)
       IN new_items_loop([mem EXCEPT !.I = Append(@, new_item)], items, k + 1,
                         Append(refs, Len(mem.I) + 1))

\* Solution(bin_dimensions, items): fresh Item objects, no bins, no cached
\* fitness.  [mem, sol]
Solution(mem, bin_dimensions, items) ==
  LET new(made) ==
        [mem |-> [made.mem EXCEPT !.S =
                    Append(@, [bin_dimensions |-> bin_dimensions,
                               all_items |-> made.refs,
                               bins |-> <<>>, fitness |-> NoFit])],
         sol |-> Len(mem.S) + 1]
  IN new(new_items_loop(mem, items, 1, <<>>))

\* Faulty variant of add_bin: the new bin gets the id of the last bin
add_bin_repeating_id(mem, s) ==
  LET bin_id == IF Len(mem.S[s].bins) = 0 THEN 0 ELSE Len(mem.S[s].bins) - 1
      d == mem.S[s].bin_dimensions
      new_bin == Bin(bin_id, d[1], d[2], d[3])
      b == Len(mem.B) + 1
  IN [mem |-> [mem EXCEPT !.B = Append(@, new_bin), !.S[s].bins = Append(@, b)],
      bin |-> b]

\* [mem, bin]
add_bin(mem, s) ==
  LET bin_id == Len(mem.S[s].bins)
      d == mem.S[s].bin_dimensions
      new_bin == Bin(bin_id, d[1], d[2], d[3])
      b == Len(mem.B) + 1
  IN [mem |-> [mem EXCEPT !.B = Append(@, new_bin), !.S[s].bins = Append(@, b)],
      bin |-> b]

\* Faulty variant of get_item_by_id: the first item when no item has the id
first_item_by_default(mem, s, item_id) ==
  LET items == mem.S[s].all_items
      hits == {k \in 1..Len(items) : mem.I[items[k]].id = item_id}
  IN IF hits = {} THEN items[1] ELSE items[CHOOSE k \in hits : \A j \in hits : k <= j]

\* reference of the first item of all_items with that id, 0 if there is none
get_item_by_id(mem, s, item_id) ==
  LET items == mem.S[s].all_items
      hits == {k \in 1..Len(items) : mem.I[items[k]].id = item_id}
  IN IF hits = {} THEN 0 ELSE items[CHOOSE k \in hits : \A j \in hits : k <= j]

\* reference of the first bin with that id, 0 if there is none
get_bin_by_id(mem, s, bin_id) ==
  LET bins == mem.S[s].bins
      hits == {k \in 1..Len(bins) : mem.B[bins[k]].id = bin_id}
  IN IF hits = {} THEN 0 ELSE bins[CHOOSE k \in hits : \A j \in hits : k <= j]

get_unpacked_items(mem, s) ==
  SelectSeq(mem.S[s].all_items, LAMBDA r : ~is_assigned(mem.I[r]))

get_used_bins(mem, s) ==
  SelectSeq(mem.S[s].bins, LAMBDA b : ~is_empty(mem.B[b]))

\* Faulty variant of is_valid: the check for duplicate assignment is left out
valid_unless_shared(mem, s) ==
  /\ Len(get_unpacked_items(mem, s)) = 0
  /\ \A i \in 1..Len(mem.S[s].bins) : is_feasible(mem, mem.S[s].bins[i])

is_valid(mem, s) ==
  LET bins == mem.S[s].bins
      slots == {<<i, k>> \in (1..Len(bins)) \X (1..Len(mem.I)) :
                  k <= Len(mem.B[bins[i]].items)}
  IN /\ Len(get_unpacked_items(mem, s)) = 0
     /\ \A i \in 1..Len(bins) : is_feasible(mem, bins[i])
     \* len(all_assigned_items) == len(set(all_assigned_items)), set by id
     /\ \A p, q \in slots :
          mem.I[mem.B[bins[p[1]]].items[p[2]]].id =
            mem.I[mem.B[bins[q[1]]].items[q[2]]].id => p = q

RECURSIVE SumUsed(_, _, _, _)
SumUsed(mem, bins, k, squared) ==
  IF k > Len(bins) THEN 0
  ELSE LET term(u) == IF squared THEN u * u ELSE u
       IN term(get_used_volume(mem, bins[k])) + SumUsed(mem, bins, k + 1, squared)

(***************************************************************************)
(* The fitness is the real number                                          *)
(*   WBins*n + WWaste*(100 - avg) + WStdDev*std + WUnpacked*u + WInfeasible*i *)
(* with avg = 100*S/(n*V) and std = 100*sqrt(n*Q - S^2)/(n*V), where n is  *)
(* the number of used bins, V the bin volume, S the sum and Q the sum of   *)
(* squares of the used volumes of the used bins.  With U = 100*WWaste,     *)
(* which divides every weight, the value is kept exactly as the record     *)
(* [n, P, D] standing for U*(P + c*sqrt(D))/(n*V), c = 100*WStdDev/U.      *)
(***************************************************************************)
FitnessUnit == 100 * WWaste

StdCoeff == (100 * WStdDev) \div FitnessUnit

\* Faulty variant of FitnessOf: unassigned items are not penalized
fitness_ignoring_unpacked(n, V, S, Q, unpacked_count, infeasible) ==
  LET m == IF n = 0 THEN 1 ELSE n
  IN [n |-> m,
      P |-> m * V * ((WBins \div FitnessUnit) * n + 1
                     + (WInfeasible \div FitnessUnit) * infeasible) - S,
      D |-> IF n > 1 THEN n * Q - S * S ELSE 0]

\* Faulty variant of FitnessOf: the weights of the unassigned items and of
\* the infeasible bins are exchanged
weights_exchanged(n, V, S, Q, unpacked_count, infeasible) ==
  LET m == IF n = 0 THEN 1 ELSE n
  IN [n |-> m,
      P |-> m * V * ((WBins \div FitnessUnit) * n + 1
                     + (WInfeasible \div FitnessUnit) * unpacked_count
                     + (WUnpacked \div FitnessUnit) * infeasible) - S,
      D |-> IF n > 1 THEN n * Q - S * S ELSE 0]

\* the value for n used bins of volume V, S the sum and Q the sum of squares
\* of their used volumes
FitnessOf(n, V, S, Q, unpacked_count, infeasible) ==
  LET m == IF n = 0 THEN 1 ELSE n
  IN [n |-> m,
      P |-> m * V * ((WBins \div FitnessUnit) * n + 1
                     + (WUnpacked \div FitnessUnit) * unpacked_count
                     + (WInfeasible \div FitnessUnit) * infeasible) - S,
      D |-> IF n > 1 THEN n * Q - S * S ELSE 0]

FitnessValue(mem, s) ==
  LET of(used, d) ==
        FitnessOf(Len(used), d[1] * d[2] * d[3],
                  SumUsed(mem, used, 1, FALSE), SumUsed(mem, used, 1, TRUE),
                  Len(get_unpacked_items(mem, s)),
                  Cardinality({k \in 1..Len(mem.S[s].bins) :
                                 ~is_feasible(mem, mem.S[s].bins[k])}))
  IN of(get_used_bins(mem, s), mem.S[s].bin_dimensions)

\* a + sqrt(Y) < sqrt(X) for integers a, X >= 0, Y >= 0
SqrtLess(a, X, Y) ==
  IF a >= 0
  THEN /\ a * a < X
       /\ LET T == X - Y - a * a IN T > 0 /\ 4 * a * a * Y < T * T
  ELSE \/ a * a > Y
       \/ LET T == Y - X - a * a IN T < 0 \/ T * T < 4 * a * a * X

\* f1 < f2 as real numbers
FitLess(f1, f2) ==
  SqrtLess(f2.n * f1.P - f1.n * f2.P,
           StdCoeff * StdCoeff * f1.n * f1.n * f2.D,
           StdCoeff * StdCoeff * f2.n * f2.n * f1.D)

FitLeq(f1, f2) == ~FitLess(f2, f1)

\* [mem, value]: computes the fitness and stores it in the cache
calculate_fitness(mem, s) ==
  LET store(fitness) ==
        [mem |-> [mem EXCEPT !.S[s].fitness = <<fitness>>], value |-> fitness]
  IN store(FitnessValue(mem, s))

\* [mem, value]: the cached value when there is one
get_fitness(mem, s) ==
  IF mem.S[s].fitness = NoFit THEN calculate_fitness(mem, s)
  ELSE [mem |-> mem, value |-> mem.S[s].fitness[1]]

invalidate_fitness(mem, s) == [mem EXCEPT !.S[s].fitness = NoFit]

\* get_average_utilization as the fraction <<p, q>>, 0.0 without used bins
get_average_utilization(mem, s) ==
  LET of(used, d) ==
        IF Len(used) = 0 THEN <<0, 1>>
        ELSE <<100 * SumUsed(mem, used, 1, FALSE), Len(used) * d[1] * d[2] * d[3]>>
  IN of(get_used_bins(mem, s), mem.S[s].bin_dimensions)

\* [mem, stats]: the dictionary, and the heap with the fitness cached
get_statistics(mem, s) ==
  LET stats(f) ==
        [mem |-> f.mem,
         stats |-> [total_bins |-> Len(mem.S[s].bins),
                    used_bins |-> Len(get_used_bins(mem, s)),
                    avg_utilization |-> get_average_utilization(mem, s),
                    unpacked_items |-> Len(get_unpacked_items(mem, s)),
                    total_items |-> Len(mem.S[s].all_items),
                    fitness |-> f.value,
                    is_valid |-> is_valid(f.mem, s)]]
  IN stats(get_fitness(mem, s))

(***************************************************************************)
(* The value calculate_fitness returns is a Python float, a binary64       *)
(* number: every division, multiplication, subtraction and addition gives  *)
(* the exact result rounded to the nearest number of FloatDigits binary    *)
(* digits, ties to the even one.  A non-negative float is the pair         *)
(* <<digits, e>> standing for digits * 2^e, digits being the binary digits *)
(* (most significant first) of an odd number; zero is << <<>>, 0 >>.  The  *)
(* values of the fitness stay far inside the exponent range of binary64.   *)
(***************************************************************************)
FloatDigits == 53

\* The arithmetic on digits goes by chunks of ChunkDigits digits, which are
\* small numbers.
ChunkDigits == 15

\* digits * 2^e with the leading and the trailing zeros removed
Canonical(digits, e) ==
  LET ones == {k \in 1..Len(digits) : digits[k] = 1}
      first == CHOOSE k \in ones : \A j \in ones : k <= j
      last == CHOOSE k \in ones : \A j \in ones : j <= k
  IN IF ones = {} THEN << <<>>, 0 >>
     ELSE <<SubSeq(digits, first, last), e + Len(digits) - last>>

\* the w binary digits of n < 2^w
FixedDigits(n, w) == [k \in 1..w |-> (n \div 2^(w - k)) % 2]

\* float(n) for a natural number n below 2^30
FromInt(n) == Canonical(FixedDigits(n, 30), 0)

\* Digits of a * k + sign * b + carry, which is not negative: a and b are
\* digits, k is a natural number below 2^ChunkDigits and sign is 1 or -1.
RECURSIVE ChunkSum(_, _, _, _, _)
ChunkSum(a, k, b, sign, carry) ==
  LET RECURSIVE number(_)
      number(d) ==
        IF d = <<>> THEN 0
        ELSE 2 * number(SubSeq(d, 1, Len(d) - 1)) + d[Len(d)]
      \* the digits before the last chunk, and the number the last chunk is
      high(d) ==
        IF Len(d) <= ChunkDigits THEN <<>>
        ELSE SubSeq(d, 1, Len(d) - ChunkDigits)
      low(d) ==
        IF Len(d) <= ChunkDigits THEN number(d)
        ELSE number(SubSeq(d, Len(d) - ChunkDigits + 1, Len(d)))
      put(t) == ChunkSum(high(a), k, high(b), sign, t \div 2^ChunkDigits)
                  \o FixedDigits(t % 2^ChunkDigits, ChunkDigits)
  IN IF a = <<>> /\ b = <<>> THEN FixedDigits(carry, ChunkDigits)
     ELSE put(low(a) * k + sign * low(b) + carry)

\* x * k + sign * y as a real number, for floats x and y
ExactSum(x, k, y, sign) ==
  LET e == IF x[2] < y[2] THEN x[2] ELSE y[2]
      \* the digits of z / 2^e
      aligned(z) == IF z[1] = <<>> THEN <<>> ELSE z[1] \o [j \in 1..(z[2] - e) |-> 0]
  IN Canonical(ChunkSum(aligned(x), k, aligned(y), sign, 0), e)

\* the nearest float to x, the even one of two equally near
float_round(x) ==
  LET drop == Len(x[1]) - FloatDigits
      head == SubSeq(x[1], 1, FloatDigits)
      \* the digits dropped are more than half a unit of the last place, or
      \* exactly half (the last digit of x is 1) and the head is odd
      up == x[1][FloatDigits + 1] = 1 /\ (drop > 1 \/ head[FloatDigits] = 1)
  IN IF drop <= 0 THEN x
     ELSE Canonical(IF up THEN ChunkSum(head, 1, <<1>>, 1, 0) ELSE head,
                    x[2] + drop)

\* a / b for natural numbers a and b > 0 below 2^ChunkDigits
true_div(a, b) ==
  LET \* the chunks after the point that hold the first FloatDigits + 1
      \* digits of such a quotient
      chunks == (FloatDigits + 1) \div ChunkDigits + 2
      \* k chunks of digits of r / b after the point for r < b, and one
      \* more digit that tells whether anything is left
      RECURSIVE quotient(_, _)
      quotient(r, k) ==
        IF k = 0 THEN FixedDigits(IF r = 0 THEN 0 ELSE 1, 1)
        ELSE FixedDigits((r * 2^ChunkDigits) \div b, ChunkDigits)
               \o quotient((r * 2^ChunkDigits) % b, k - 1)
  IN float_round(Canonical(FixedDigits(a \div b, ChunkDigits) \o quotient(a % b, chunks),
                           0 - (chunks * ChunkDigits + 1)))

\* x < y for floats x and y
ExactLess(x, y) ==
  LET e == IF x[2] < y[2] THEN x[2] ELSE y[2]
      aligned(z) == IF z[1] = <<>> THEN <<>> ELSE z[1] \o [j \in 1..(z[2] - e) |-> 0]
      less(a, b) ==
        \/ Len(a) < Len(b)
        \/ /\ Len(a) = Len(b)
           /\ \E k \in 1..Len(a) :
                a[k] < b[k] /\ \A j \in 1..(k - 1) : a[j] = b[j]
  IN less(aligned(x), aligned(y))

\* Bin.get_volume_utilization (src/problem/bin.py):
\* (self.get_used_volume() / self.get_volume()) * 100
get_volume_utilization(mem, b) ==
  float_round(ExactSum(true_div(get_used_volume(mem, b), Bin_get_volume(mem.B[b])),
                       100, FromInt(0), 1))

\* The float calculate_fitness returns for n <= 1 used bins of volume V
\* holding the volume S <= V.
FloatFitnessOf(n, V, S, unpacked_count, infeasible) ==
  LET float_add(x, y) == float_round(ExactSum(x, 1, y, 1))
      \* x - y for x >= y, and x * k for a natural number k
      float_sub(x, y) == float_round(ExactSum(x, 1, y, -1))
      float_mul(x, k) == float_round(ExactSum(x, k, FromInt(0), 1))
      \* get_volume_utilization of the one used bin is its average
      avg_utilization == IF n = 0 THEN FromInt(0) ELSE float_mul(true_div(S, V), 100)
      waste == float_mul(float_sub(FromInt(100), avg_utilization), WWaste)
      counted == float_add(float_add(FromInt(n * WBins), waste),
                           FromInt(unpacked_count * WUnpacked))
      RECURSIVE penalized(_, _)
      penalized(fitness, k) ==
        IF k = 0 THEN fitness
        ELSE penalized(float_add(fitness, FromInt(WInfeasible)), k - 1)
  IN penalized(counted, infeasible)

\* The float calculate_fitness returns for Solution s; <<>> for more than
\* one used bin, whose value is not modelled: it goes through x ** 2 and
\* x ** 0.5, and their last digit is the C library's choice.
FloatFitnessValue(mem, s) ==
  LET of(used, d) ==
        IF Len(used) > 1 THEN <<>>
        ELSE FloatFitnessOf(Len(used), d[1] * d[2] * d[3],
                            SumUsed(mem, used, 1, FALSE),
                            Len(get_unpacked_items(mem, s)),
                            Cardinality({k \in 1..Len(mem.S[s].bins) :
                                           ~is_feasible(mem, mem.S[s].bins[k])}))
  IN of(get_used_bins(mem, s), mem.S[s].bin_dimensions)

RECURSIVE copy_items_loop(_, _, _, _)
copy_items_loop(mem, items, k, refs) ==
  IF k > Len(items) THEN [mem |-> mem, refs |-> refs]
  ELSE LET item == mem.I[items[k]]
           new_item == [Item(item.id, item.length, item.width, item.height)
                          EXCEPT !.rotation = item.rotation,
                                 !.position = item.position,
                                 !.assigned_bin = item.assigned_bin]
       IN copy_items_loop([mem EXCEPT !.I = Append(@, new_item)], items, k + 1,
                          Append(refs, Len(mem.I) + 1))

\* item_map = {item.id: item for item in new_solution.all_items}
item_map(mem, refs, item_id) ==
  refs[CHOOSE k \in 1..Len(refs) :
         /\ mem.I[refs[k]].id = item_id
         /\ \A j \in (k + 1)..Len(refs) : mem.I[refs[j]].id # item_id]

RECURSIVE copy_bin_items_loop(_, _, _, _, _)
copy_bin_items_loop(mem, new_refs, old_items, k, new_bin) ==
  IF k > Len(old_items) THEN mem
  ELSE LET add(new_item) ==
             IF ~ItemIn(mem, new_item, mem.B[new_bin].items)
             THEN [mem EXCEPT !.B[new_bin].items = Append(@, new_item),
                              !.I[new_item].assigned_bin = mem.B[new_bin].id]
             ELSE mem
       IN copy_bin_items_loop(add(item_map(mem, new_refs, mem.I[old_items[k]].id)),
                              new_refs, old_items, k + 1, new_bin)

\* Faulty variant of copy_bins_loop: the copy is given the Bin objects of the
\* source instead of new ones
share_bins(mem, new_s, new_refs, old_bins, k) ==
  [mem EXCEPT !.S[new_s].bins = old_bins]

RECURSIVE copy_bins_loop(_, _, _, _, _)
copy_bins_loop(mem, new_s, new_refs, old_bins, k) ==
  IF k > Len(old_bins) THEN mem
  ELSE LET fill(added) ==
             copy_bin_items_loop(added.mem, new_refs, mem.B[old_bins[k]].items, 1,
                                 added.bin)
       IN copy_bins_loop(fill(add_bin(mem, new_s)), new_s, new_refs, old_bins, k + 1)

\* Faulty variant of Solution.copy: all_items is the list of the source's
\* Item objects, so the bins of the copy hold the items of the source
shallow_copy(mem, s) ==
  LET build(made) ==
        [mem |-> [copy_bins_loop([made.mem EXCEPT !.S[made.sol].all_items =
                                                    mem.S[s].all_items],
                                 made.sol, mem.S[s].all_items, mem.S[s].bins, 1)
                    EXCEPT !.S[made.sol].fitness = mem.S[s].fitness],
         sol |-> made.sol]
  IN build(Solution(mem, mem.S[s].bin_dimensions, <<>>))

\* Faulty variant of Solution.copy: the cached fitness is not carried over
copy_without_fitness(mem, s) ==
  LET build(copied, made) ==
        [mem |-> copy_bins_loop([made.mem EXCEPT !.S[made.sol].all_items = copied.refs],
                                made.sol, copied.refs, mem.S[s].bins, 1),
         sol |-> made.sol]
      items_copied(copied) ==
        build(copied, Solution(copied.mem, mem.S[s].bin_dimensions, <<>>))
  IN items_copied(copy_items_loop(mem, mem.S[s].all_items, 1, <<>>))

\* Solution.copy(): new Item and Bin objects with the same state.  [mem, sol]
Solution_copy(mem, s) ==
  LET \* new_solution = Solution(self.bin_dimensions, []) with all_items the
      \* copied items, then the bins, then the cached fitness
      build(copied, made) ==
        [mem |-> [copy_bins_loop([made.mem EXCEPT !.S[made.sol].all_items = copied.refs],
                                 made.sol, copied.refs, mem.S[s].bins, 1)
                    EXCEPT !.S[made.sol].fitness = mem.S[s].fitness],
         sol |-> made.sol]
      items_copied(copied) ==
        build(copied, Solution(copied.mem, mem.S[s].bin_dimensions, <<>>))
  IN items_copied(copy_items_loop(mem, mem.S[s].all_items, 1, <<>>))

\* Faulty variant of FirstFittingBin: the last bin that admits the item
LastFittingBin(mem, s, item) ==
  LET last(fits) == IF fits = {} THEN 0 ELSE CHOOSE k \in fits : \A j \in fits : k >= j
  IN last({k \in 1..Len(mem.S[s].bins) :
            find_best_position_for_item(mem, mem.S[s].bins[k], item) # <<>>})

\* ------------------------------------------------------------------------
\* First Fit Decreasing (src/utils/constructive.py)
\* ------------------------------------------------------------------------
\* index of the first existing bin with a valid position for the item, 0 if none
FirstFittingBin(mem, s, item) ==
  LET first(fits) == IF fits = {} THEN 0 ELSE CHOOSE k \in fits : \A j \in fits : k <= j
  IN first({k \in 1..Len(mem.S[s].bins) :
             find_best_position_for_item(mem, mem.S[s].bins[k], item) # <<>>})

RECURSIVE ffd_loop(_, _, _, _)
ffd_loop(mem, s, sorted_items, k) ==
  IF k > Len(sorted_items) THEN mem
  ELSE LET \* no existing bin takes the item: a new bin, which keeps the item
           \* if it fits there
           in_new_bin(item, added, result) ==
             IF result # <<>>
             THEN PlaceItem(added.mem, added.bin, item, result)
             ELSE added.mem
           open_bin(item, added) ==
             in_new_bin(item, added,
                        find_best_position_for_item(added.mem, added.bin, item))
           in_bin(item, bin) ==
             PlaceItem(mem, bin, item, find_best_position_for_item(mem, bin, item))
           place(item, first) ==
             IF first # 0 THEN in_bin(item, mem.S[s].bins[first])
             ELSE open_bin(item, add_bin(mem, s))
       IN ffd_loop(place(sorted_items[k], FirstFittingBin(mem, s, sorted_items[k])),
                   s, sorted_items, k + 1)

\* [mem, sol]
first_fit_decreasing(mem, bin_dimensions, items) ==
  LET pack(made) ==
        [mem |-> invalidate_fitness(
                   ffd_loop(made.mem, made.sol,
                            SortByVolume(made.mem, made.mem.S[made.sol].all_items, 1, <<>>),
                            1),
                   made.sol),
         sol |-> made.sol]
  IN pack(Solution(mem, bin_dimensions, items))

\* ------------------------------------------------------------------------
\* Neighborhood operators (src/algorithms/operators.py)
\* An operator yields [mem, sol]; sol = NoSol stands for None.
\* ------------------------------------------------------------------------
\* [item for item in items if item.id != excluded.id]
WithoutId(mem, items, excluded) ==
  SelectSeq(items, LAMBDA r : mem.I[r].id # mem.I[excluded].id)

\* return None, with the heap as the call leaves it
None(mem) == [mem |-> mem, sol |-> NoSol]

\* new_solution.invalidate_fitness(); return new_solution
Returned(mem, new_solution) ==
  [mem |-> invalidate_fitness(mem, new_solution), sol |-> new_solution]

\* Faulty variant of swap_items: None when either swapped item is not packed
swap_rejecting_either(mem, s, item1_id, item2_id) ==
  LET in_copy(m0, new_solution, new_item1, new_item2) ==
        LET repack(bin1, bin2) ==
              LET second(p1) ==
                    LET finish(p2) ==
                          IF ItemIn(p2.mem, new_item1, p2.unpacked)
                             \/ ItemIn(p2.mem, new_item2, p1.unpacked)
                          THEN None(p2.mem)
                          ELSE Returned(p2.mem, new_solution)
                    IN finish(pack_items_in_bin(
                                p1.mem, bin2,
                                Append(WithoutId(m0, m0.B[bin2].items, new_item2), new_item1),
                                TRUE))
              IN second(pack_items_in_bin(
                          Bin_clear(Bin_clear(m0, bin1), bin2), bin1,
                          Append(WithoutId(m0, m0.B[bin1].items, new_item1), new_item2),
                          TRUE))
        IN repack(get_bin_by_id(m0, new_solution, m0.I[new_item1].assigned_bin),
                  get_bin_by_id(m0, new_solution, m0.I[new_item2].assigned_bin))
      copy(copied) ==
        in_copy(copied.mem, copied.sol,
                get_item_by_id(copied.mem, copied.sol, item1_id),
                get_item_by_id(copied.mem, copied.sol, item2_id))
      check(item1, item2) ==
        IF item1 = 0 \/ item2 = 0 THEN None(mem)
        ELSE IF ~is_assigned(mem.I[item1]) \/ ~is_assigned(mem.I[item2]) THEN None(mem)
        ELSE IF mem.I[item1].assigned_bin = mem.I[item2].assigned_bin THEN None(mem)
        ELSE copy(Solution_copy(mem, s))
  IN check(get_item_by_id(mem, s, item1_id), get_item_by_id(mem, s, item2_id))

swap_items(mem, s, item1_id, item2_id) ==
  LET in_copy(m0, new_solution, new_item1, new_item2) ==
        LET repack(bin1, bin2) ==
              LET second(p1) ==
                    LET finish(p2) ==
                          IF ItemIn(p2.mem, new_item1, p2.unpacked)
                             /\ ItemIn(p2.mem, new_item2, p1.unpacked)
                          THEN None(p2.mem)
                          ELSE Returned(p2.mem, new_solution)
                    IN finish(pack_items_in_bin(
                                p1.mem, bin2,
                                Append(WithoutId(m0, m0.B[bin2].items, new_item2), new_item1),
                                TRUE))
              IN second(pack_items_in_bin(
                          Bin_clear(Bin_clear(m0, bin1), bin2), bin1,
                          Append(WithoutId(m0, m0.B[bin1].items, new_item1), new_item2),
                          TRUE))
        IN repack(get_bin_by_id(m0, new_solution, m0.I[new_item1].assigned_bin),
                  get_bin_by_id(m0, new_solution, m0.I[new_item2].assigned_bin))
      copy(copied) ==
        in_copy(copied.mem, copied.sol,
                get_item_by_id(copied.mem, copied.sol, item1_id),
                get_item_by_id(copied.mem, copied.sol, item2_id))
      check(item1, item2) ==
        IF item1 = 0 \/ item2 = 0 THEN None(mem)
        ELSE IF ~is_assigned(mem.I[item1]) \/ ~is_assigned(mem.I[item2]) THEN None(mem)
        ELSE IF mem.I[item1].assigned_bin = mem.I[item2].assigned_bin THEN None(mem)
        ELSE copy(Solution_copy(mem, s))
  IN check(get_item_by_id(mem, s, item1_id), get_item_by_id(mem, s, item2_id))

\* Faulty variant of move_item: the moved item is looked for among the items
\* the source bin did not take back
move_checking_source(mem, s, item_id, target_bin_id) ==
  LET in_copy(m0, new_solution, new_item) ==
        LET repack(old_bin, new_bin) ==
              LET second(p_old) ==
                    LET finish(p_new) ==
                          IF ItemIn(p_new.mem, new_item, p_old.unpacked)
                          THEN None(p_new.mem)
                          ELSE Returned(p_new.mem, new_solution)
                    IN finish(pack_items_in_bin(p_old.mem, new_bin,
                                                Append(m0.B[new_bin].items, new_item), TRUE))
              IN second(pack_items_in_bin(Bin_clear(Bin_clear(m0, old_bin), new_bin), old_bin,
                                          WithoutId(m0, m0.B[old_bin].items, new_item), TRUE))
        IN repack(get_bin_by_id(m0, new_solution, m0.I[new_item].assigned_bin),
                  get_bin_by_id(m0, new_solution, target_bin_id))
      copy(copied) ==
        in_copy(copied.mem, copied.sol, get_item_by_id(copied.mem, copied.sol, item_id))
      check(item) ==
        IF item = 0 \/ ~is_assigned(mem.I[item]) THEN None(mem)
        ELSE IF mem.I[item].assigned_bin = target_bin_id THEN None(mem)
        ELSE IF get_bin_by_id(mem, s, target_bin_id) = 0 THEN None(mem)
        ELSE copy(Solution_copy(mem, s))
  IN check(get_item_by_id(mem, s, item_id))

move_item(mem, s, item_id, target_bin_id) ==
  LET in_copy(m0, new_solution, new_item) ==
        LET repack(old_bin, new_bin) ==
              LET second(p_old) ==
                    LET finish(p_new) ==
                          IF ItemIn(p_new.mem, new_item, p_new.unpacked)
                          THEN None(p_new.mem)
                          ELSE Returned(p_new.mem, new_solution)
                    IN finish(pack_items_in_bin(p_old.mem, new_bin,
                                                Append(m0.B[new_bin].items, new_item), TRUE))
              IN second(pack_items_in_bin(Bin_clear(Bin_clear(m0, old_bin), new_bin), old_bin,
                                          WithoutId(m0, m0.B[old_bin].items, new_item), TRUE))
        IN repack(get_bin_by_id(m0, new_solution, m0.I[new_item].assigned_bin),
                  get_bin_by_id(m0, new_solution, target_bin_id))
      copy(copied) ==
        in_copy(copied.mem, copied.sol, get_item_by_id(copied.mem, copied.sol, item_id))
      check(item) ==
        IF item = 0 \/ ~is_assigned(mem.I[item]) THEN None(mem)
        ELSE IF mem.I[item].assigned_bin = target_bin_id THEN None(mem)
        ELSE IF get_bin_by_id(mem, s, target_bin_id) = 0 THEN None(mem)
        ELSE copy(Solution_copy(mem, s))
  IN check(get_item_by_id(mem, s, item_id))

\* Faulty variant of merge_bins_aggressive: more than 80% of the items must fit
merge_above_four_fifths(mem, s, bin1_id, bin2_id) ==
  LET in_copy(m0, new_solution, new_bin1, new_bin2) ==
        LET finish(all_items, p) ==
              IF Len(p.unpacked) = 0 THEN Returned(p.mem, new_solution)
              ELSE IF 10 * Len(p.packed) > 8 * Len(all_items)
              THEN Returned(p.mem, new_solution)
              ELSE None(p.mem)
        IN finish(m0.B[new_bin1].items \o m0.B[new_bin2].items,
                  pack_items_in_bin(Bin_clear(Bin_clear(m0, new_bin1), new_bin2), new_bin1,
                                    m0.B[new_bin1].items \o m0.B[new_bin2].items, TRUE))
      copy(copied) ==
        in_copy(copied.mem, copied.sol,
                get_bin_by_id(copied.mem, copied.sol, bin1_id),
                get_bin_by_id(copied.mem, copied.sol, bin2_id))
      check(bin1, bin2) ==
        IF bin1 = 0 \/ bin2 = 0 THEN None(mem)
        ELSE IF mem.B[bin1].id = mem.B[bin2].id THEN None(mem)
        \* total_volume > bin1.get_volume() * 1.5
        ELSE IF 2 * (get_used_volume(mem, bin1) + get_used_volume(mem, bin2))
                  > 3 * Bin_get_volume(mem.B[bin1])
        THEN None(mem)
        ELSE copy(Solution_copy(mem, s))
  IN check(get_bin_by_id(mem, s, bin1_id), get_bin_by_id(mem, s, bin2_id))

merge_bins_aggressive(mem, s, bin1_id, bin2_id) ==
  LET in_copy(m0, new_solution, new_bin1, new_bin2) ==
        LET finish(all_items, p) ==
              IF Len(p.unpacked) = 0 THEN Returned(p.mem, new_solution)
              \* len(packed) >= len(all_items) * 0.8
              ELSE IF 10 * Len(p.packed) >= 8 * Len(all_items)
              THEN Returned(p.mem, new_solution)
              ELSE None(p.mem)
        IN finish(m0.B[new_bin1].items \o m0.B[new_bin2].items,
                  pack_items_in_bin(Bin_clear(Bin_clear(m0, new_bin1), new_bin2), new_bin1,
                                    m0.B[new_bin1].items \o m0.B[new_bin2].items, TRUE))
      copy(copied) ==
        in_copy(copied.mem, copied.sol,
                get_bin_by_id(copied.mem, copied.sol, bin1_id),
                get_bin_by_id(copied.mem, copied.sol, bin2_id))
      check(bin1, bin2) ==
        IF bin1 = 0 \/ bin2 = 0 THEN None(mem)
        ELSE IF mem.B[bin1].id = mem.B[bin2].id THEN None(mem)
        \* total_volume > bin1.get_volume() * 1.5
        ELSE IF 2 * (get_used_volume(mem, bin1) + get_used_volume(mem, bin2))
                  > 3 * Bin_get_volume(mem.B[bin1])
        THEN None(mem)
        ELSE copy(Solution_copy(mem, s))
  IN check(get_bin_by_id(mem, s, bin1_id), get_bin_by_id(mem, s, bin2_id))

\* the inner loop of consolidate_small_bins over new_solution.bins for one
\* item.  [mem, placed]
RECURSIVE relocate_loop(_, _, _, _, _)
relocate_loop(mem, bins, k, new_smallest, item) ==
  IF k > Len(bins) THEN [mem |-> mem, placed |-> FALSE]
  ELSE LET tried(p) ==
             IF ItemIn(p.mem, item, p.packed)
             THEN [mem |-> p.mem, placed |-> TRUE]
             ELSE relocate_loop(p.mem, bins, k + 1, new_smallest, item)
           try(bin) ==
             IF mem.B[bin].id # mem.B[new_smallest].id /\ ~is_empty(mem.B[bin])
             THEN tried(pack_items_in_bin(Bin_clear(mem, bin), bin,
                                          Append(mem.B[bin].items, item), TRUE))
             ELSE relocate_loop(mem, bins, k + 1, new_smallest, item)
       IN try(bins[k])

RECURSIVE consolidate_loop(_, _, _, _, _)
consolidate_loop(mem, new_solution, new_smallest, items_to_relocate, k) ==
  IF k > Len(items_to_relocate) THEN mem
  ELSE LET \* "if not placed: new_smallest.add_item(item)"
           after(item, tried) ==
             IF tried.placed THEN tried.mem ELSE add_item(tried.mem, new_smallest, item)
       IN consolidate_loop(
            after(items_to_relocate[k],
                  relocate_loop(mem, mem.S[new_solution].bins, 1, new_smallest,
                                items_to_relocate[k])),
            new_solution, new_smallest, items_to_relocate, k + 1)

\* 100 * utilization(b1) <= 100 * utilization(b2); all bins of a Solution
\* have the same volume
UtilLeq(mem, b1, b2) ==
  get_used_volume(mem, b1) * Bin_get_volume(mem.B[b2])
    <= get_used_volume(mem, b2) * Bin_get_volume(mem.B[b1])

\* Faulty variant of consolidate_small_bins: half of the items may stay
consolidate_to_half(mem, s) ==
  LET in_copy(m0, new_solution, smallest_bin, new_smallest) ==
        LET finish(m1) ==
              IF is_empty(m1.B[new_smallest]) THEN Returned(m1, new_solution)
              ELSE IF 2 * Len(m1.B[new_smallest].items) <= Len(mem.B[smallest_bin].items)
              THEN Returned(m1, new_solution)
              ELSE None(m1)
        IN finish(consolidate_loop(Bin_clear(m0, new_smallest), new_solution,
                                   new_smallest, m0.B[new_smallest].items, 1))
      copy(copied, smallest_bin) ==
        in_copy(copied.mem, copied.sol, smallest_bin,
                get_bin_by_id(copied.mem, copied.sol, mem.B[smallest_bin].id))
      \* smallest_bin.get_volume_utilization() > 60
      check(smallest_bin) ==
        IF 100 * get_used_volume(mem, smallest_bin) > 60 * Bin_get_volume(mem.B[smallest_bin])
        THEN None(mem)
        ELSE copy(Solution_copy(mem, s), smallest_bin)
      \* sorted(used_bins, key=utilization)[0]: the first bin of least utilization
      smallest(used_bins) ==
        IF Len(used_bins) < 2 THEN None(mem)
        ELSE check(used_bins[CHOOSE k \in 1..Len(used_bins) :
                     /\ \A j \in 1..Len(used_bins) :
                          UtilLeq(mem, used_bins[k], used_bins[j])
                     /\ \A j \in 1..(k - 1) :
                          ~UtilLeq(mem, used_bins[j], used_bins[k])])
  IN smallest(get_used_bins(mem, s))

consolidate_small_bins(mem, s) ==
  LET in_copy(m0, new_solution, smallest_bin, new_smallest) ==
        LET finish(m1) ==
              IF is_empty(m1.B[new_smallest]) THEN Returned(m1, new_solution)
              \* len(new_smallest.items) < len(smallest_bin.items) * 0.5
              ELSE IF 2 * Len(m1.B[new_smallest].items) < Len(mem.B[smallest_bin].items)
              THEN Returned(m1, new_solution)
              ELSE None(m1)
        IN finish(consolidate_loop(Bin_clear(m0, new_smallest), new_solution,
                                   new_smallest, m0.B[new_smallest].items, 1))
      copy(copied, smallest_bin) ==
        in_copy(copied.mem, copied.sol, smallest_bin,
                get_bin_by_id(copied.mem, copied.sol, mem.B[smallest_bin].id))
      \* smallest_bin.get_volume_utilization() > 60
      check(smallest_bin) ==
        IF 100 * get_used_volume(mem, smallest_bin) > 60 * Bin_get_volume(mem.B[smallest_bin])
        THEN None(mem)
        ELSE copy(Solution_copy(mem, s), smallest_bin)
      \* sorted(used_bins, key=utilization)[0]: the first bin of least utilization
      smallest(used_bins) ==
        IF Len(used_bins) < 2 THEN None(mem)
        ELSE check(used_bins[CHOOSE k \in 1..Len(used_bins) :
                     /\ \A j \in 1..Len(used_bins) :
                          UtilLeq(mem, used_bins[k], used_bins[j])
                     /\ \A j \in 1..(k - 1) :
                          ~UtilLeq(mem, used_bins[j], used_bins[k])])
  IN smallest(get_used_bins(mem, s))

\* Faulty variant of rebalance_bins: the unassigned items of the Solution are
\* packed along with the items of the two bins
rebalance_with_unpacked(mem, s, bin1_id, bin2_id) ==
  LET in_copy(m0, new_solution, new_bin1, new_bin2) ==
        LET \* "if unpacked1: pack_items_in_bin(new_bin2, unpacked1, ...)"
            second(p1) ==
              IF Len(p1.unpacked) # 0
              THEN pack_items_in_bin(p1.mem, new_bin2, p1.unpacked, TRUE).mem
              ELSE p1.mem
        IN Returned(second(pack_items_in_bin(
                             Bin_clear(Bin_clear(m0, new_bin1), new_bin2), new_bin1,
                             m0.B[new_bin1].items \o m0.B[new_bin2].items
                               \o get_unpacked_items(m0, new_solution), TRUE)),
                    new_solution)
      copy(copied) ==
        in_copy(copied.mem, copied.sol,
                get_bin_by_id(copied.mem, copied.sol, bin1_id),
                get_bin_by_id(copied.mem, copied.sol, bin2_id))
      \* abs(util1 - util2) < 20, in floats
      compare(util1, util2) ==
        IF ExactLess(float_round(IF ExactLess(util1, util2)
                                 THEN ExactSum(util2, 1, util1, -1)
                                 ELSE ExactSum(util1, 1, util2, -1)),
                     FromInt(20))
        THEN None(mem)
        ELSE copy(Solution_copy(mem, s))
      check(bin1, bin2) ==
        IF bin1 = 0 \/ bin2 = 0 THEN None(mem)
        ELSE compare(get_volume_utilization(mem, bin1),
                     get_volume_utilization(mem, bin2))
  IN check(get_bin_by_id(mem, s, bin1_id), get_bin_by_id(mem, s, bin2_id))

rebalance_bins(mem, s, bin1_id, bin2_id) ==
  LET in_copy(m0, new_solution, new_bin1, new_bin2) ==
        LET \* "if unpacked1: pack_items_in_bin(new_bin2, unpacked1, ...)"
            second(p1) ==
              IF Len(p1.unpacked) # 0
              THEN pack_items_in_bin(p1.mem, new_bin2, p1.unpacked, TRUE).mem
              ELSE p1.mem
        IN Returned(second(pack_items_in_bin(
                             Bin_clear(Bin_clear(m0, new_bin1), new_bin2), new_bin1,
                             m0.B[new_bin1].items \o m0.B[new_bin2].items, TRUE)),
                    new_solution)
      copy(copied) ==
        in_copy(copied.mem, copied.sol,
                get_bin_by_id(copied.mem, copied.sol, bin1_id),
                get_bin_by_id(copied.mem, copied.sol, bin2_id))
      \* abs(util1 - util2) < 20, in floats
      compare(util1, util2) ==
        IF ExactLess(float_round(IF ExactLess(util1, util2)
                                 THEN ExactSum(util2, 1, util1, -1)
                                 ELSE ExactSum(util1, 1, util2, -1)),
                     FromInt(20))
        THEN None(mem)
        ELSE copy(Solution_copy(mem, s))
      check(bin1, bin2) ==
        IF bin1 = 0 \/ bin2 = 0 THEN None(mem)
        ELSE compare(get_volume_utilization(mem, bin1),
                     get_volume_utilization(mem, bin2))
  IN check(get_bin_by_id(mem, s, bin1_id), get_bin_by_id(mem, s, bin2_id))

\* ------------------------------------------------------------------------
\* Exhaustive and random neighbor generators (src/algorithms/operators.py)
\* ------------------------------------------------------------------------
\* [item for item in solution.all_items if item.is_assigned()]
assigned_items(mem, s) ==
  SelectSeq(mem.S[s].all_items, LAMBDA r : is_assigned(mem.I[r]))

\* A generator yields [mem, neighbors]: the heap after all the operator calls
\* and the list of the candidates that were not None.
RECURSIVE swap_neighbors_loop(_, _, _, _, _, _)
swap_neighbors_loop(mem, s, items, i, j, neighbors) ==
  IF i > Len(items) THEN [mem |-> mem, neighbors |-> neighbors]
  ELSE IF j > Len(items) THEN swap_neighbors_loop(mem, s, items, i + 1, i + 2, neighbors)
  ELSE IF mem.I[items[i]].assigned_bin # mem.I[items[j]].assigned_bin
  THEN LET append(neighbor) ==
             swap_neighbors_loop(neighbor.mem, s, items, i, j + 1,
                                 IF neighbor.sol # NoSol
                                 THEN Append(neighbors, neighbor.sol)
                                 ELSE neighbors)
       IN append(swap_items(mem, s, mem.I[items[i]].id, mem.I[items[j]].id))
  ELSE swap_neighbors_loop(mem, s, items, i, j + 1, neighbors)

get_all_swap_neighbors(mem, s) ==
  swap_neighbors_loop(mem, s, assigned_items(mem, s), 1, 2, <<>>)

RECURSIVE move_neighbors_loop(_, _, _, _, _, _)
move_neighbors_loop(mem, s, items, i, k, neighbors) ==
  IF i > Len(items) THEN [mem |-> mem, neighbors |-> neighbors]
  ELSE IF k > Len(mem.S[s].bins) THEN move_neighbors_loop(mem, s, items, i + 1, 1, neighbors)
  ELSE IF mem.B[mem.S[s].bins[k]].id # mem.I[items[i]].assigned_bin
  THEN LET append(neighbor) ==
             move_neighbors_loop(neighbor.mem, s, items, i, k + 1,
                                 IF neighbor.sol # NoSol
                                 THEN Append(neighbors, neighbor.sol)
                                 ELSE neighbors)
       IN append(move_item(mem, s, mem.I[items[i]].id, mem.B[mem.S[s].bins[k]].id))
  ELSE move_neighbors_loop(mem, s, items, i, k + 1, neighbors)

get_all_move_neighbors(mem, s) ==
  move_neighbors_loop(mem, s, assigned_items(mem, s), 1, 1, <<>>)

\* rebalance_bins(solution, i, j) for the list indices i < j
RECURSIVE rebalance_neighbors_loop(_, _, _, _, _)
rebalance_neighbors_loop(mem, s, i, j, neighbors) ==
  IF i > Len(mem.S[s].bins) THEN [mem |-> mem, neighbors |-> neighbors]
  ELSE IF j > Len(mem.S[s].bins) THEN rebalance_neighbors_loop(mem, s, i + 1, i + 2, neighbors)
  ELSE LET append(neighbor) ==
             rebalance_neighbors_loop(neighbor.mem, s, i, j + 1,
                                      IF neighbor.sol # NoSol
                                      THEN Append(neighbors, neighbor.sol)
                                      ELSE neighbors)
       IN append(rebalance_bins(mem, s, i - 1, j - 1))

get_all_rebalance_neighbors(mem, s) == rebalance_neighbors_loop(mem, s, 1, 2, <<>>)

\* get_random_rebalance_neighbor with random.sample(solution.bins, 2) = (i, j)
get_random_rebalance_neighbor(mem, s, i, j) ==
  IF Len(mem.S[s].bins) < 2 THEN None(mem)
  ELSE rebalance_bins(mem, s, mem.B[mem.S[s].bins[i]].id, mem.B[mem.S[s].bins[j]].id)

\* get_random_merge_neighbor whose last attempt sampled the bins (i, j): a
\* failed attempt is followed by another sample, and the same failing pair can
\* be drawn in each of the attempts
get_random_merge_neighbor(mem, s, i, j) ==
  IF Len(mem.S[s].bins) < 2 THEN None(mem)
  ELSE merge_bins_aggressive(mem, s, mem.B[mem.S[s].bins[i]].id,
                             mem.B[mem.S[s].bins[j]].id)

get_random_consolidate_neighbor(mem, s) == consolidate_small_bins(mem, s)

\* get_random_swap_neighbor whose last attempt sampled the assigned items
\* number (i, j)
get_random_swap_neighbor(mem, s, i, j) ==
  LET attempt(items) ==
        IF Len(items) < 2 THEN None(mem)
        ELSE IF mem.I[items[i]].assigned_bin # mem.I[items[j]].assigned_bin
        THEN swap_items(mem, s, mem.I[items[i]].id, mem.I[items[j]].id)
        ELSE None(mem)
  IN attempt(assigned_items(mem, s))

\* get_random_move_neighbor whose last attempt chose assigned item number i
\* and, among the bins other than the item's, the bin of list index k
get_random_move_neighbor(mem, s, i, k) ==
  LET attempt(items) ==
        IF Len(items) = 0 \/ Len(mem.S[s].bins) < 2 \/ i = 0 THEN None(mem)
        ELSE move_item(mem, s, mem.I[items[i]].id, mem.B[mem.S[s].bins[k]].id)
  IN attempt(assigned_items(mem, s))

\* the samples a random generator can draw
BinPairs(mem, s) ==
  {p \in (1..Len(mem.S[s].bins)) \X (1..Len(mem.S[s].bins)) : p[1] # p[2]}

ItemPairs(mem, s) ==
  LET n == Len(assigned_items(mem, s))
  IN {p \in (1..n) \X (1..n) : p[1] # p[2]}

\* an assigned item and one of the bins other than its own
ItemBinPairs(mem, s) ==
  {p \in (1..Len(assigned_items(mem, s))) \X (1..Len(mem.S[s].bins)) :
     mem.B[mem.S[s].bins[p[2]]].id # mem.I[assigned_items(mem, s)[p[1]]].assigned_bin}

Branches == {"merge", "consolidate", "swap", "move", "rebalance"}

\* what random.random() and the samples select in get_random_neighbor
Samples(mem, s, branch) ==
  CASE branch = "merge" -> IF Len(mem.S[s].bins) < 2 THEN {<<0, 0>>} ELSE BinPairs(mem, s)
    [] branch = "consolidate" -> {<<0, 0>>}
    [] branch = "swap" -> IF Len(assigned_items(mem, s)) < 2 THEN {<<0, 0>>}
                          ELSE ItemPairs(mem, s)
    [] branch = "move" -> IF Len(assigned_items(mem, s)) = 0 \/ Len(mem.S[s].bins) < 2
                             \/ ItemBinPairs(mem, s) = {}
                          THEN {<<0, 0>>} ELSE ItemBinPairs(mem, s)
    [] branch = "rebalance" -> {<<0, 0>>}

Fallbacks(mem, s) ==
  IF Len(mem.S[s].bins) < 2 THEN {<<0, 0>>} ELSE BinPairs(mem, s)

\* get_random_neighbor up to the final rebalance: the family chosen by
\* random.random() and the sample of its last attempt
chosen_family(mem, s, branch, sample) ==
  CASE branch = "merge" -> get_random_merge_neighbor(mem, s, sample[1], sample[2])
    [] branch = "consolidate" -> get_random_consolidate_neighbor(mem, s)
    [] branch = "swap" -> get_random_swap_neighbor(mem, s, sample[1], sample[2])
    [] branch = "move" -> get_random_move_neighbor(mem, s, sample[1], sample[2])
    [] branch = "rebalance" -> None(mem)

\* the samples the final rebalance can draw after the chosen family gave
\* neighbor: none when that neighbor is returned
FallbackSamples(mem, s, neighbor) ==
  IF neighbor.sol # NoSol THEN {<<0, 0>>} ELSE Fallbacks(mem, s)

\* get_random_neighbor: neighbor is what the chosen family gave, fallback the
\* sample of the final rebalance
get_random_neighbor(s, neighbor, fallback) ==
  IF neighbor.sol # NoSol THEN neighbor
  ELSE get_random_rebalance_neighbor(neighbor.mem, s, fallback[1], fallback[2])

\* ------------------------------------------------------------------------
\* Observation and garbage collection of the heap
\* ------------------------------------------------------------------------
\* what can be observed of Solution object s: its bins in order with their
\* ids and member ids, and the state of every item of all_items
View(mem, s) ==
  [bins |-> [k \in 1..Len(mem.S[s].bins) |->
               LET bin == mem.B[mem.S[s].bins[k]]
               IN [id |-> bin.id,
                   items |-> [j \in 1..Len(bin.items) |-> mem.I[bin.items[j]].id]]],
   items |-> [k \in 1..Len(mem.S[s].all_items) |-> mem.I[mem.S[s].all_items[k]]]]

RECURSIVE Dedup(_, _)
Dedup(seq, acc) ==
  IF seq = <<>> THEN acc
  ELSE Dedup(Tail(seq),
             IF \E k \in 1..Len(acc) : acc[k] = Head(seq) THEN acc
             ELSE Append(acc, Head(seq)))

RECURSIVE Flatten(_)
Flatten(seqs) == IF seqs = <<>> THEN <<>> ELSE Head(seqs) \o Flatten(Tail(seqs))

IndexOf(seq, x) == CHOOSE k \in 1..Len(seq) : seq[k] = x

\* The objects reachable from the roots, renumbered in order of reachability;
\* unreachable objects are dropped as the garbage collector does.  [mem, roots]
Collect(mem, roots) ==
  LET renumber(liveS, liveB, liveI) ==
        LET renI(items) == [k \in 1..Len(items) |-> IndexOf(liveI, items[k])]
            renB(bins) == [k \in 1..Len(bins) |-> IndexOf(liveB, bins[k])]
        IN [mem |-> [I |-> [k \in 1..Len(liveI) |-> mem.I[liveI[k]]],
                     B |-> [k \in 1..Len(liveB) |->
                              [mem.B[liveB[k]] EXCEPT !.items = renI(@)]],
                     S |-> [k \in 1..Len(liveS) |->
                              [mem.S[liveS[k]] EXCEPT !.all_items = renI(@),
                                                      !.bins = renB(@)]]],
            roots |-> [k \in 1..Len(roots) |->
                         IF roots[k] = NoSol THEN NoSol ELSE IndexOf(liveS, roots[k])]]
      items_of(liveS, liveB) ==
        renumber(liveS, liveB,
                 Dedup(Flatten([k \in 1..Len(liveS) |-> mem.S[liveS[k]].all_items])
                         \o Flatten([k \in 1..Len(liveB) |-> mem.B[liveB[k]].items]), <<>>))
      bins_of(liveS) ==
        items_of(liveS, Dedup(Flatten([k \in 1..Len(liveS) |-> mem.S[liveS[k]].bins]), <<>>))
  IN bins_of(Dedup(SelectSeq(roots, LAMBDA s : s # NoSol), <<>>))

\* ------------------------------------------------------------------------
\* State
\* ------------------------------------------------------------------------
VARIABLES
  inst,       \* index of the problem instance
  mem,        \* the heap
  pc,         \* "new", "ready", "ls", "ls_done", "sa", "sa_done", "api"
  solution,   \* the caller's Solution (initial_solution of the drivers)
  current,    \* current_solution of the running driver; the copy in the API runs
  best,       \* best_solution of the running driver
  result,     \* the Solution returned by solve
  solView,    \* what could be observed of solution when solve or copy was called
  verbose,    \* LocalSearch.verbose
  iteration,  \* LocalSearch: iteration
  history,    \* LocalSearch.history
  annealer,   \* the SimulatedAnnealing object, NoAnnealer before it is made
  temperature,\* SimulatedAnnealing.solve: temperature, a fraction <<p, q>>
  level,      \* SimulatedAnnealing: number of coolings done
  trial,      \* SimulatedAnnealing: trials done at this temperature level
  lowest,     \* the least fitness current_solution has had, NoFit before solve
  calls,      \* number of API calls made
  lastCall    \* the last API call: its name and the Solution it was made on

vars == <<inst, mem, pc, solution, current, best, result, solView,
          verbose, iteration, history, annealer, temperature, level, trial,
          lowest, calls, lastCall>>

lsVars == <<verbose, iteration, history>>
saVars == <<annealer, temperature, level, trial, lowest>>
apiVars == <<calls, lastCall>>

\* the caller's Item objects of instance i
InstanceItems(i) ==
  [k \in 1..Len(Instances[i].items) |->
     Item(k, Instances[i].items[k][1], Instances[i].items[k][2], Instances[i].items[k][3])]

Init ==
  /\ inst \in 1..Len(Instances)
  /\ mem = EmptyMem
  /\ pc = "new"
  /\ solution = NoSol /\ current = NoSol /\ best = NoSol /\ result = NoSol
  /\ solView = <<>>
  /\ verbose = FALSE /\ iteration = 0 /\ history = <<>>
  /\ annealer = NoAnnealer /\ temperature = NoTemp
  /\ level = 0 /\ trial = 0 /\ lowest = NoFit
  /\ calls = 0 /\ lastCall = <<>>

\* the heap and the references after the step, garbage collected
Commit(m, sol, cur, bst, res) ==
  LET set(c) ==
        /\ mem' = c.mem
        /\ solution' = c.roots[1]
        /\ current' = c.roots[2]
        /\ best' = c.roots[3]
        /\ result' = c.roots[4]
  IN set(Collect(m, <<sol, cur, bst, res>>))

\* main.py: solution = first_fit_decreasing(bin_dimensions, items)
RunFFD ==
  /\ pc = "new"
  /\ LET returned(r) == Commit(r.mem, r.sol, NoSol, NoSol, NoSol)
     IN returned(first_fit_decreasing(mem, Instances[inst].bin, InstanceItems(inst)))
  /\ pc' = "ready"
  /\ UNCHANGED <<inst, solView>>
  /\ UNCHANGED <<lsVars, saVars, apiVars>>

\* ------------------------------------------------------------------------
\* LocalSearch.solve (src/algorithms/local_search.py)
\* ------------------------------------------------------------------------
\* solve up to the while loop
StartLS ==
  /\ pc = "ready"
  /\ \E v \in BOOLEAN :
       LET \* c1 is current_solution, c2 best_solution; the report when verbose
           \* reads current_solution.get_fitness()
           start(c1, c2) ==
             Commit(IF v THEN get_fitness(c2.mem, c1.sol).mem ELSE c2.mem,
                    solution, c1.sol, c2.sol, NoSol)
           copied(c1) == start(c1, Solution_copy(c1.mem, c1.sol))
       IN /\ verbose' = v
          /\ copied(Solution_copy(mem, solution))
  /\ pc' = "ls"
  /\ iteration' = 0
  /\ history' = <<>>
  /\ solView' = View(mem, solution)
  /\ UNCHANGED inst
  /\ UNCHANGED <<saVars, apiVars>>

\* swap_neighbors + move_neighbors + rebalance_neighbors of Solution s.
\* [mem, neighbors]
all_neighbors(m, s) ==
  LET joined(swaps, moves, rebalances) ==
        [mem |-> rebalances.mem,
         neighbors |-> swaps.neighbors \o moves.neighbors \o rebalances.neighbors]
      moved(swaps, moves) ==
        joined(swaps, moves, get_all_rebalance_neighbors(moves.mem, s))
      swapped(swaps) == moved(swaps, get_all_move_neighbors(swaps.mem, s))
  IN swapped(get_all_swap_neighbors(m, s))

\* get_fitness() on every neighbor, as min(all_neighbors, key=...) does
RECURSIVE fitness_all(_, _, _)
fitness_all(m, neighbors, k) ==
  IF k > Len(neighbors) THEN m
  ELSE fitness_all(get_fitness(m, neighbors[k]).mem, neighbors, k + 1)

\* Faulty variant of min_neighbor: the first neighbor, whatever its fitness
first_neighbor(m, neighbors) == neighbors[1]

\* min(all_neighbors, key=lambda x: x.get_fitness()): the first of least fitness
min_neighbor(m, neighbors) ==
  neighbors[CHOOSE k \in 1..Len(neighbors) :
              /\ \A j \in 1..Len(neighbors) :
                   FitLeq(m.S[neighbors[k]].fitness[1], m.S[neighbors[j]].fitness[1])
              /\ \A j \in 1..(k - 1) :
                   FitLess(m.S[neighbors[k]].fitness[1], m.S[neighbors[j]].fitness[1])]

\* Faulty variant of is_improvement: a neighbor of equal fitness is taken too
not_worse(best_neighbor_fitness, current_fitness) ==
  FitLeq(best_neighbor_fitness, current_fitness)

\* "if best_neighbor_fitness < current_fitness"
is_improvement(best_neighbor_fitness, current_fitness) ==
  FitLess(best_neighbor_fitness, current_fitness)

\* solve after the while loop: the report when verbose, and the return
ls_finish(m, cur, bst) ==
  /\ Commit(IF verbose THEN get_fitness(get_fitness(m, solution).mem, bst).mem ELSE m,
            solution, cur, bst, bst)
  /\ pc' = "ls_done"

\* one iteration of the while loop, and the rest of solve when it breaks
LSIterate ==
  /\ pc = "ls"
  /\ iteration < MaxIterations
  /\ iteration' = iteration + 1
  /\ LET \* "if best_neighbor_fitness < best_solution.get_fitness()"
         update_best(best_neighbor, best_neighbor_fitness, bf) ==
           LET copied(c) == Commit(c.mem, solution, best_neighbor, c.sol, NoSol)
           IN IF FitLess(best_neighbor_fitness, bf.value)
              THEN copied(Solution_copy(bf.mem, best_neighbor))
              ELSE Commit(bf.mem, solution, best_neighbor, best, NoSol)
         \* the move to best_neighbor, else break
         compare(best_neighbor, best_neighbor_fitness, cf) ==
           /\ history' = Append(history, cf.value)
           /\ IF is_improvement(best_neighbor_fitness, cf.value)
              THEN /\ update_best(best_neighbor, best_neighbor_fitness,
                                  get_fitness(cf.mem, best))
                   /\ pc' = "ls"
              ELSE ls_finish(cf.mem, current, best)
         selected(m1, best_neighbor) ==
           compare(best_neighbor, get_fitness(m1, best_neighbor).value,
                   get_fitness(m1, current))
         evaluated(neighbors, m1) == selected(m1, min_neighbor(m1, neighbors))
         \* "if not all_neighbors: break"
         generated(all) ==
           IF all.neighbors = <<>>
           THEN /\ ls_finish(all.mem, current, best)
                /\ history' = history
           ELSE evaluated(all.neighbors, fitness_all(all.mem, all.neighbors, 1))
     IN generated(all_neighbors(mem, current))
  /\ UNCHANGED <<inst, solView, verbose>>
  /\ UNCHANGED <<saVars, apiVars>>

\* the while condition fails: the rest of solve
LSReturn ==
  /\ pc = "ls"
  /\ iteration >= MaxIterations
  /\ ls_finish(mem, current, best)
  /\ UNCHANGED <<inst, solView>>
  /\ UNCHANGED <<lsVars, saVars, apiVars>>

\* ------------------------------------------------------------------------
\* SimulatedAnnealing.solve (src/algorithms/simulated_annealing.py)
\* Temperatures are fractions <<p, q>> of integers, cooling rates too; the
\* annealers below use powers of two, on which the floats of the source are
\* exact.  Every temperature of a run is at least 2 * MinTemp, and the
\* fitnesses of the instances are below 10^5, so that for a worse neighbor
\* exp(-delta / temperature) is strictly between 0 and 1.
\* ------------------------------------------------------------------------
\* SimulatedAnnealing(initial_temp, min_temp, cooling_rate, iterations_per_temp)
SimulatedAnnealing(initial_temp, min_temp, cooling_rate, iterations_per_temp) ==
  [initial_temp |-> initial_temp, min_temp |-> min_temp,
   cooling_rate |-> cooling_rate, iterations_per_temp |-> iterations_per_temp]

\* the annealers of the runs: MaxLevels levels of IterationsPerTemp trials,
\* a faster cooling, one level of one more trial, and no level at all
Annealers ==
  { SimulatedAnnealing(MinTemp * 2^MaxLevels, MinTemp, <<1, 2>>, IterationsPerTemp),
    SimulatedAnnealing(MinTemp * 2^MaxLevels, MinTemp, <<1, 4>>, IterationsPerTemp),
    SimulatedAnnealing(2 * MinTemp, MinTemp, <<1, 2>>, IterationsPerTemp + 1),
    SimulatedAnnealing(MinTemp, MinTemp, <<1, 2>>, IterationsPerTemp) }

\* "while temperature > self.min_temp"
above_min_temp(t, min_temp) == t[1] > min_temp * t[2]

\* Faulty variant of cooled: the temperature is left as it is
not_cooled(t, cooling_rate) == t

\* "temperature *= self.cooling_rate"
cooled(t, cooling_rate) == <<t[1] * cooling_rate[1], t[2] * cooling_rate[2]>>

\* solve up to the while loop
StartSA ==
  /\ pc = "ready"
  /\ \E sa \in Annealers :
       /\ annealer' = sa
       /\ temperature' = <<sa.initial_temp, 1>>
  /\ LET start(c1, c2) ==
           /\ Commit(c2.mem, solution, c1.sol, c2.sol, NoSol)
           /\ lowest' = FitnessValue(c1.mem, c1.sol)
         copied(c1) == start(c1, Solution_copy(c1.mem, c1.sol))
     IN copied(Solution_copy(mem, solution))
  /\ pc' = "sa"
  /\ level' = 0
  /\ trial' = 0
  /\ solView' = View(mem, solution)
  /\ UNCHANGED inst
  /\ UNCHANGED <<lsVars, apiVars>>

\* The body of the inner loop once get_random_neighbor has returned neighbor
\* ([mem, sol]).  A neighbor that is not worse is accepted: the probability
\* is 1.0, or exp(0) = 1.0 when the fitnesses are equal, and random.random()
\* is below 1.0.  A worse one is accepted or not, as random.random() falls.
sa_step(neighbor) ==
  LET \* "if neighbor_fitness < best_solution.get_fitness()"
      update_best(nf, bf) ==
        LET copied(c) == Commit(c.mem, solution, neighbor.sol, c.sol, NoSol)
        IN IF FitLess(nf.value, bf.value)
           THEN copied(Solution_copy(bf.mem, neighbor.sol))
           ELSE Commit(bf.mem, solution, neighbor.sol, best, NoSol)
      decide(cf, nf) ==
        \E accept \in (IF FitLeq(nf.value, cf.value) THEN {TRUE} ELSE BOOLEAN) :
          IF accept
          THEN /\ update_best(nf, get_fitness(nf.mem, best))
               /\ lowest' = IF FitLess(nf.value, lowest) THEN nf.value ELSE lowest
          ELSE /\ Commit(nf.mem, solution, current, best, NoSol)
               /\ lowest' = lowest
      measured(cf) == decide(cf, get_fitness(cf.mem, neighbor.sol))
  IN IF neighbor.sol = NoSol
     THEN /\ Commit(neighbor.mem, solution, current, best, NoSol)
          /\ lowest' = lowest
     ELSE measured(get_fitness(neighbor.mem, current))

\* one trial of the inner loop
SATrial ==
  /\ pc = "sa"
  /\ above_min_temp(temperature, annealer.min_temp)
  /\ trial < annealer.iterations_per_temp
  /\ trial' = trial + 1
  /\ \E branch \in Branches :
       \E sample \in Samples(mem, current, branch) :
         LET drawn(first) ==
               \E fallback \in FallbackSamples(mem, current, first) :
                 sa_step(get_random_neighbor(current, first, fallback))
         IN drawn(chosen_family(mem, current, branch, sample))
  /\ UNCHANGED <<inst, pc, solView, annealer, temperature, level>>
  /\ UNCHANGED <<lsVars, apiVars>>

\* the inner loop is over: temperature *= cooling_rate
SACool ==
  /\ pc = "sa"
  /\ above_min_temp(temperature, annealer.min_temp)
  /\ trial = annealer.iterations_per_temp
  /\ temperature' = cooled(temperature, annealer.cooling_rate)
  /\ level' = level + 1
  /\ trial' = 0
  /\ UNCHANGED <<inst, mem, pc, solution, current, best, result, solView,
                 annealer, lowest>>
  /\ UNCHANGED <<lsVars, apiVars>>

\* Faulty variant of SAReturn: the final current_solution is returned
SAReturnCurrent ==
  /\ pc = "sa"
  /\ ~above_min_temp(temperature, annealer.min_temp)
  /\ Commit(mem, solution, current, best, current)
  /\ pc' = "sa_done"
  /\ UNCHANGED <<inst, solView>>
  /\ UNCHANGED <<lsVars, saVars, apiVars>>

\* the while condition fails: return best_solution
SAReturn ==
  /\ pc = "sa"
  /\ ~above_min_temp(temperature, annealer.min_temp)
  /\ Commit(mem, solution, current, best, best)
  /\ pc' = "sa_done"
  /\ UNCHANGED <<inst, solView>>
  /\ UNCHANGED <<lsVars, saVars, apiVars>>

\* ------------------------------------------------------------------------
\* A caller of the public API: it copies the FFD solution and then mutates
\* the original or the copy through Solution, Bin, Item and pack_items_in_bin
\* (src/simple_test.py does so with remove_item on a packed solution)
\* ------------------------------------------------------------------------
\* the positions and rotation indices the caller passes
ApiPositions == {<<0, 0, 0>>, <<1, 0, 0>>}

ApiRotations == {1, 6}

\* the Solution objects the caller holds
Targets == {solution, current}

Side(t) == IF t = solution THEN "original" ELSE "copy"

\* the heap after an API call on Solution t
api_done(m, t, name) ==
  /\ Commit(m, solution, current, NoSol, NoSol)
  /\ calls' = calls + 1
  /\ lastCall' = <<name, Side(t)>>
  /\ UNCHANGED <<inst, pc, solView>>
  /\ UNCHANGED <<lsVars, saVars>>

\* c = solution.copy()
ApiCopy ==
  /\ pc = "ready"
  /\ LET copied(c) == Commit(c.mem, solution, c.sol, NoSol, NoSol)
     IN copied(Solution_copy(mem, solution))
  /\ pc' = "api"
  /\ solView' = View(mem, solution)
  /\ UNCHANGED inst
  /\ UNCHANGED <<lsVars, saVars, apiVars>>

ApiAddBin ==
  /\ pc = "api" /\ calls < MaxApiCalls
  /\ \E t \in Targets : api_done(add_bin(mem, t).mem, t, "add_bin")

ApiAddItem ==
  /\ pc = "api" /\ calls < MaxApiCalls
  /\ \E t \in Targets :
       \E i \in 1..Len(mem.S[t].bins) : \E k \in 1..Len(mem.S[t].all_items) :
         api_done(add_item(mem, mem.S[t].bins[i], mem.S[t].all_items[k]), t, "add_item")

ApiRemoveItem ==
  /\ pc = "api" /\ calls < MaxApiCalls
  /\ \E t \in Targets :
       \E i \in 1..Len(mem.S[t].bins) : \E k \in 1..Len(mem.S[t].all_items) :
         api_done(remove_item(mem, mem.S[t].bins[i], mem.S[t].all_items[k]), t,
                  "remove_item")

ApiClear ==
  /\ pc = "api" /\ calls < MaxApiCalls
  /\ \E t \in Targets :
       \E i \in 1..Len(mem.S[t].bins) :
         api_done(Bin_clear(mem, mem.S[t].bins[i]), t, "clear")

ApiSetPosition ==
  /\ pc = "api" /\ calls < MaxApiCalls
  /\ \E t \in Targets :
       \E k \in 1..Len(mem.S[t].all_items) : \E p \in ApiPositions :
         api_done(set_position(mem, mem.S[t].all_items[k], p[1], p[2], p[3]), t,
                  "set_position")

ApiSetRotation ==
  /\ pc = "api" /\ calls < MaxApiCalls
  /\ \E t \in Targets :
       \E k \in 1..Len(mem.S[t].all_items) : \E rotation \in ApiRotations :
         api_done(set_rotation(mem, mem.S[t].all_items[k], rotation), t, "set_rotation")

\* pack_items_in_bin(bin, solution.get_unpacked_items())
ApiPack ==
  /\ pc = "api" /\ calls < MaxApiCalls
  /\ \E t \in Targets :
       \E i \in 1..Len(mem.S[t].bins) :
         api_done(pack_items_in_bin(mem, mem.S[t].bins[i], get_unpacked_items(mem, t),
                                    TRUE).mem,
                  t, "pack_items_in_bin")

ApiGetFitness ==
  /\ pc = "api" /\ calls < MaxApiCalls
  /\ \E t \in Targets : api_done(get_fitness(mem, t).mem, t, "get_fitness")

Next ==
  \/ RunFFD
  \/ StartLS
  \/ LSIterate
  \/ LSReturn
  \/ StartSA
  \/ SATrial
  \/ SACool
  \/ SAReturn

Spec == Init /\ [][Next]_vars

NextAPI ==
  \/ RunFFD
  \/ ApiCopy
  \/ ApiAddBin
  \/ ApiAddItem
  \/ ApiRemoveItem
  \/ ApiClear
  \/ ApiSetPosition
  \/ ApiSetRotation
  \/ ApiPack
  \/ ApiGetFitness

SpecAPI == Init /\ [][NextAPI]_vars

\* ------------------------------------------------------------------------
\* The packing routines on their own.  A caller makes a Solution and either
\* runs first_fit_decreasing on the items and reads get_statistics, or adds
\* an empty bin and packs lists of the Solution's unassigned items into it
\* with pack_items_in_bin, turning items with set_rotation in between.
\* ------------------------------------------------------------------------
\* the largest number of items of a generated instance
MaxPackItems == 3
\* number of calls made on the one-bin Solution
MaxPackCalls == 2

PackBins == {<<2, 2, 2>>, <<3, 2, 1>>}

\* the shapes of the items of the generated instances
PackDims == << <<2, 1, 1>>, <<1, 2, 3>>, <<1, 1, 1>>, <<1, 2, 2>> >>

\* create_small_instance
SmallInstance ==
  [bin |-> <<10, 8, 6>>,
   items |-> << <<8, 6, 4>>, <<7, 5, 4>>, <<6, 5, 3>>, <<5, 4, 3>>,
                <<4, 4, 3>>, <<5, 3, 2>>, <<4, 3, 2>>, <<3, 3, 2>> >>]

\* The instances: every bin with every choice of up to MaxPackItems shapes,
\* listed in the order of PackDims (the callers pass the items in every
\* order), and the small instance of the tests.
PackInstances ==
  {[bin |-> b, items |-> [k \in DOMAIN d |-> PackDims[d[k]]]] :
     b \in PackBins,
     d \in UNION {{f \in [1..n -> DOMAIN PackDims] : \A k \in 1..(n - 1) : f[k] <= f[k + 1]} :
                   n \in 1..MaxPackItems}}
  \cup {SmallInstance}

\* the caller's Item objects of instance i: item k has id k
PackItems(i) ==
  [k \in 1..Len(i.items) |-> Item(k, i.items[k][1], i.items[k][2], i.items[k][3])]

\* the rotation indices the caller passes
PackRotations == {-1, 5, 6}

\* The lists the caller passes: distinct items of Solution s that are in no
\* bin, in any order.  (Every call of the program passes items of bins it
\* has just cleared.)
PackLists(m, s) ==
  LET free == {r \in {m.S[s].all_items[k] : k \in 1..Len(m.S[s].all_items)} :
                 ~is_assigned(m.I[r])}
  IN UNION {{l \in [1..n -> free] : \A i, j \in 1..n : l[i] = l[j] => i = j} :
              n \in 0..MaxPackItems}

\* the ids of a list of items
IdsOf(m, items) == [k \in 1..Len(items) |-> m.I[items[k]].id]

InitPack ==
  /\ inst \in PackInstances
  /\ mem = EmptyMem
  /\ pc = "new"
  /\ solution = NoSol /\ current = NoSol /\ best = NoSol /\ result = NoSol
  /\ solView = <<>>
  /\ verbose = FALSE /\ iteration = 0 /\ history = <<>>
  /\ annealer = NoAnnealer /\ temperature = NoTemp
  /\ level = 0 /\ trial = 0 /\ lowest = NoFit
  /\ calls = 0 /\ lastCall = <<>>

\* solution = first_fit_decreasing(bin_dimensions, items)
PackFFD ==
  /\ pc = "new"
  /\ LET returned(r) == Commit(r.mem, r.sol, NoSol, NoSol, NoSol)
     IN returned(first_fit_decreasing(mem, inst.bin, PackItems(inst)))
  /\ pc' = "ffd"
  /\ UNCHANGED <<inst, solView>>
  /\ UNCHANGED <<lsVars, saVars, apiVars>>

\* solution.get_statistics()
PackStatistics ==
  /\ pc = "ffd"
  /\ LET returned(r) ==
           /\ Commit(r.mem, solution, NoSol, NoSol, NoSol)
           /\ lastCall' = [name |-> "get_statistics", stats |-> r.stats]
     IN returned(get_statistics(mem, solution))
  /\ pc' = "stats"
  /\ UNCHANGED <<inst, solView, calls>>
  /\ UNCHANGED <<lsVars, saVars>>

\* solution = Solution(bin_dimensions, items); solution.add_bin()
PackNew ==
  /\ pc = "new"
  /\ Len(inst.items) <= MaxPackItems
  /\ LET added(made, a) == Commit(a.mem, made.sol, NoSol, NoSol, NoSol)
         new(made) == added(made, add_bin(made.mem, made.sol))
     IN new(Solution(mem, inst.bin, PackItems(inst)))
  /\ pc' = "pack"
  /\ UNCHANGED <<inst, solView>>
  /\ UNCHANGED <<lsVars, saVars, apiVars>>

\* packed, unpacked = pack_items_in_bin(bin, items, sort_items)
PackCall ==
  /\ pc = "pack" /\ calls < MaxPackCalls
  /\ \E i \in 1..Len(mem.S[solution].bins) :
       \E items \in PackLists(mem, solution) : \E sort_items \in BOOLEAN :
         LET returned(r) ==
               /\ Commit(r.mem, solution, NoSol, NoSol, NoSol)
               /\ lastCall' = [name |-> "pack_items_in_bin", bin |-> i,
                               items |-> IdsOf(mem, items), sort_items |-> sort_items,
                               packed |-> IdsOf(mem, r.packed),
                               unpacked |-> IdsOf(mem, r.unpacked)]
         IN returned(pack_items_in_bin(mem, mem.S[solution].bins[i], items, sort_items))
  /\ calls' = calls + 1
  /\ UNCHANGED <<inst, pc, solView>>
  /\ UNCHANGED <<lsVars, saVars>>

\* item.set_rotation(rotation)
PackSetRotation ==
  /\ pc = "pack" /\ calls < MaxPackCalls
  /\ \E k \in 1..Len(mem.S[solution].all_items) : \E rotation \in PackRotations :
       /\ Commit(set_rotation(mem, mem.S[solution].all_items[k], rotation),
                 solution, NoSol, NoSol, NoSol)
       /\ lastCall' = [name |-> "set_rotation",
                       item |-> mem.I[mem.S[solution].all_items[k]].id,
                       rotation |-> rotation,
                       raised |-> set_rotation_raises(rotation)]
  /\ calls' = calls + 1
  /\ UNCHANGED <<inst, pc, solView>>
  /\ UNCHANGED <<lsVars, saVars>>

\* packed, unpacked = repack_bin(bin), on a bin of the Solution that
\* first_fit_decreasing returned or on the bin the caller packed
PackRepack ==
  /\ pc \in {"ffd", "pack"}
  /\ \E i \in 1..Len(mem.S[solution].bins) :
       LET returned(r) ==
             /\ Commit(r.mem, solution, NoSol, NoSol, NoSol)
             /\ lastCall' = [name |-> "repack_bin", bin |-> i,
                             packed |-> IdsOf(mem, r.packed),
                             unpacked |-> IdsOf(mem, r.unpacked)]
       IN returned(repack_bin(mem, mem.S[solution].bins[i]))
  /\ pc' = "repacked"
  /\ UNCHANGED <<inst, solView, calls>>
  /\ UNCHANGED <<lsVars, saVars>>

NextPack ==
  \/ PackFFD
  \/ PackStatistics
  \/ PackNew
  \/ PackCall
  \/ PackSetRotation
  \/ PackRepack

SpecPack == InitPack /\ [][NextPack]_vars

\* ------------------------------------------------------------------------
\* The operators on their own.  A caller runs first_fit_decreasing and calls
\* the five operators on the Solution with any ids -- ids of items and bins
\* of the Solution and one id that names none -- and may go on with a
\* Solution an operator returned, as the search drivers do.
\* ------------------------------------------------------------------------
\* number of operator calls of a run
MaxOpCalls == 2

OpsInstances ==
  {[bin |-> <<15, 1, 1>>, items |-> << <<10, 1, 1>>, <<7, 1, 1>> >>],
   [bin |-> <<6, 2, 1>>,
    items |-> << <<3, 1, 1>>, <<4, 1, 1>>, <<4, 1, 1>>, <<2, 2, 1>>, <<2, 2, 1>> >>],
   [bin |-> <<8, 1, 1>>,
    items |-> << <<1, 1, 1>>, <<1, 1, 1>>, <<1, 1, 1>>, <<1, 1, 1>>, <<5, 1, 1>> >>],
   [bin |-> <<8, 1, 1>>, items |-> << <<1, 1, 1>>, <<2, 1, 1>>, <<7, 1, 1>> >>],
   [bin |-> <<8, 1, 1>>, items |-> << <<9, 1, 1>>, <<5, 1, 1>>, <<4, 1, 1>> >>],
   [bin |-> <<4, 2, 1>>,
    items |-> << <<3, 1, 1>>, <<4, 1, 1>>, <<2, 2, 1>>, <<2, 2, 1>> >>]}

InitOps ==
  /\ inst \in OpsInstances
  /\ mem = EmptyMem
  /\ pc = "new"
  /\ solution = NoSol /\ current = NoSol /\ best = NoSol /\ result = NoSol
  /\ solView = <<>>
  /\ verbose = FALSE /\ iteration = 0 /\ history = <<>>
  /\ annealer = NoAnnealer /\ temperature = NoTemp
  /\ level = 0 /\ trial = 0 /\ lowest = NoFit
  /\ calls = 0 /\ lastCall = <<>>

\* solution = first_fit_decreasing(bin_dimensions, items)
OpsFFD ==
  /\ pc = "new"
  /\ LET returned(r) == Commit(r.mem, r.sol, NoSol, NoSol, NoSol)
     IN returned(first_fit_decreasing(mem, inst.bin, PackItems(inst)))
  /\ pc' = "ops"
  /\ UNCHANGED <<inst, solView>>
  /\ UNCHANGED <<lsVars, saVars, apiVars>>

\* neighbor = swap_items(solution, i, j), move_item(solution, i, b),
\* rebalance_bins(solution, a, b), merge_bins_aggressive(solution, a, b) or
\* consolidate_small_bins(solution)
OpsCall ==
  /\ pc = "ops" /\ calls < MaxOpCalls
  /\ LET items == 1..(Len(mem.S[solution].all_items) + 1)
         bins == 0..Len(mem.S[solution].bins)
         returned(name, args, r) ==
           /\ Commit(r.mem, solution, NoSol, NoSol, r.sol)
           /\ lastCall' = [name |-> name, args |-> args]
     IN \/ \E i \in items, j \in items :
             returned("swap_items", <<i, j>>, swap_items(mem, solution, i, j))
        \/ \E i \in items, b \in bins :
             returned("move_item", <<i, b>>, move_item(mem, solution, i, b))
        \/ \E a \in bins, b \in bins :
             returned("rebalance_bins", <<a, b>>, rebalance_bins(mem, solution, a, b))
        \/ \E a \in bins, b \in bins :
             returned("merge_bins_aggressive", <<a, b>>,
                      merge_bins_aggressive(mem, solution, a, b))
        \/ returned("consolidate_small_bins", <<>>, consolidate_small_bins(mem, solution))
  /\ calls' = calls + 1
  /\ UNCHANGED <<inst, pc, solView>>
  /\ UNCHANGED <<lsVars, saVars>>

\* solution = neighbor
OpsAdopt ==
  /\ pc = "ops" /\ calls < MaxOpCalls
  /\ result # NoSol
  /\ Commit(mem, result, NoSol, NoSol, NoSol)
  /\ lastCall' = <<>>
  /\ UNCHANGED <<inst, pc, solView, calls>>
  /\ UNCHANGED <<lsVars, saVars>>

NextOps ==
  \/ OpsFFD
  \/ OpsCall
  \/ OpsAdopt

SpecOps == InitOps /\ [][NextOps]_vars

\* ------------------------------------------------------------------------
\* Properties
\* ------------------------------------------------------------------------
\* The Solution objects the program holds.  In a search run they are the
\* Solution FFD returned, the neighbors the driver moved to (every candidate
\* an operator returns to SimulatedAnnealing.solve can be accepted), the
\* copies kept as best_solution and the Solution solve returned.
Held == {solution, current, best, result} \ {NoSol}

ItemIds(m, s) == {m.I[m.S[s].all_items[k]].id : k \in 1..Len(m.S[s].all_items)}

BinIds(m, s) == {m.B[m.S[s].bins[k]].id : k \in 1..Len(m.S[s].bins)}

\* what the five operators return on Solution s, for every choice of ids
OperatorResults(m, s) ==
  {swap_items(m, s, i, j) : i \in ItemIds(m, s), j \in ItemIds(m, s)}
    \cup {move_item(m, s, i, b) : i \in ItemIds(m, s), b \in BinIds(m, s)}
    \cup {rebalance_bins(m, s, a, b) : a \in BinIds(m, s), b \in BinIds(m, s)}
    \cup {merge_bins_aggressive(m, s, a, b) : a \in BinIds(m, s), b \in BinIds(m, s)}
    \cup {consolidate_small_bins(m, s)}

\* the heaps the get_all_* generators leave
AllGeneratorHeaps(m, s) ==
  {get_all_swap_neighbors(m, s).mem, get_all_move_neighbors(m, s).mem,
   get_all_rebalance_neighbors(m, s).mem}

\* what get_random_neighbor returns on Solution s, for every random outcome
RandomNeighbors(m, s) ==
  UNION {{get_random_neighbor(s, chosen_family(m, s, branch, sample), fallback) :
            sample \in Samples(m, s, branch), fallback \in Fallbacks(m, s)} :
         branch \in Branches}

\* the Solution the operators are applied to in this state
Input == IF current # NoSol THEN current ELSE solution

\* in every bin of Solution s no two contained items overlap and every placed
\* contained item lies inside the bin
NoOverlapInBounds(m, s) ==
  \A k \in 1..Len(m.S[s].bins) :
    LET b == m.S[s].bins[k]
    IN /\ ~has_overlaps(m, b)
       /\ \A j \in 1..Len(m.B[b].items) :
            is_placed(m.I[m.B[b].items[j]])
              => is_within_bounds(m.B[b], m.I[m.B[b].items[j]])

Fit(m, s) == get_fitness(m, s).value

FitEq(f1, f2) == FitLeq(f1, f2) /\ FitLeq(f2, f1)

\* C1: every Solution held -- returned by first_fit_decreasing, taken from an
\* operator by a driver, or returned by LocalSearch.solve or
\* SimulatedAnnealing.solve -- has no two overlapping items in a bin and every
\* placed contained item inside its bin; and so has every Solution any of the
\* five operators returns, for any arguments, on a Solution that has the
\* property and that a driver started, or is about to start, from.
C1_NoOverlapInBounds ==
  /\ \A s \in Held : NoOverlapInBounds(mem, s)
  /\ (pc \in {"ready", "ls"} /\ NoOverlapInBounds(mem, Input))
       => \A r \in OperatorResults(mem, Input) :
            r.sol # NoSol => NoOverlapInBounds(r.mem, r.sol)

\* a search run has ended with a Solution that differs from the initial one
\* and has a bin with two placed items
C1_Witness ==
  /\ pc \in {"ls_done", "sa_done"}
  /\ View(mem, result) # solView
  /\ \E k \in 1..Len(mem.S[result].bins) :
       LET items == mem.B[mem.S[result].bins[k]].items
       IN Len(items) >= 2 /\ \A j \in 1..Len(items) : is_placed(mem.I[items[j]])

\* item.assigned_bin == b.id iff item is a member of b.items, for every item
\* and bin of Solution s, and no item is a member of two bins
MembershipConsistent(m, s) ==
  LET bins == m.S[s].bins
      member(r, b) == \E j \in 1..Len(m.B[b].items) : m.B[b].items[j] = r
  IN /\ \A k \in 1..Len(bins) : \A j \in 1..Len(m.B[bins[k]].items) :
          \E i \in 1..Len(m.S[s].all_items) :
            m.S[s].all_items[i] = m.B[bins[k]].items[j]
     /\ \A i \in 1..Len(m.S[s].all_items) : \A k \in 1..Len(bins) :
          (m.I[m.S[s].all_items[i]].assigned_bin = m.B[bins[k]].id)
            <=> member(m.S[s].all_items[i], bins[k])
     /\ \A k1, k2 \in 1..Len(bins) :
          k1 # k2 =>
            \A j1 \in 1..Len(m.B[bins[k1]].items) :
              \A j2 \in 1..Len(m.B[bins[k2]].items) :
                /\ m.B[bins[k1]].items[j1] # m.B[bins[k2]].items[j2]
                /\ m.I[m.B[bins[k1]].items[j1]].id # m.I[m.B[bins[k2]].items[j2]].id

\* Bin.remove_item on any member of any bin of Solution s leaves it
\* unassigned and out of the bin
RemoveUnassigns(m, s) ==
  \A k \in 1..Len(m.S[s].bins) :
    LET b == m.S[s].bins[k]
    IN \A j \in 1..Len(m.B[b].items) :
         LET r == m.B[b].items[j]
             after == remove_item(m, b, r)
         IN /\ after.I[r].assigned_bin = NoBin
            /\ \A i \in 1..Len(after.B[b].items) : after.B[b].items[i] # r
            /\ Len(after.B[b].items) = Len(m.B[b].items) - 1

\* C2: in every Solution held, and in every Solution an operator returns on
\* the initial or the current Solution of LocalSearch, an item's assigned_bin
\* is a bin's id iff the item is a member of that bin and no item is in two
\* bins; and Bin.remove_item leaves the removed item unassigned.
C2_AssignmentIsMembership ==
  /\ \A s \in Held : MembershipConsistent(mem, s) /\ RemoveUnassigns(mem, s)
  /\ pc \in {"ready", "ls"}
       => \A r \in OperatorResults(mem, Input) :
            r.sol # NoSol => MembershipConsistent(r.mem, r.sol)

\* SimulatedAnnealing.solve has moved to a Solution that differs from the
\* initial one and has both an assigned and an unassigned item
C2_Witness ==
  /\ pc = "sa"
  /\ View(mem, current) # solView
  /\ \E i \in 1..Len(mem.S[current].all_items) :
       is_assigned(mem.I[mem.S[current].all_items[i]])
  /\ \E i \in 1..Len(mem.S[current].all_items) :
       ~is_assigned(mem.I[mem.S[current].all_items[i]])

\* position is set iff assigned_bin is set, for every item of Solution s, and
\* every member of a bin has a position
PositionIffAssigned(m, s) ==
  /\ \A i \in 1..Len(m.S[s].all_items) :
       is_placed(m.I[m.S[s].all_items[i]]) <=> is_assigned(m.I[m.S[s].all_items[i]])
  /\ \A k \in 1..Len(m.S[s].bins) :
       \A j \in 1..Len(m.B[m.S[s].bins[k]].items) :
         is_placed(m.I[m.B[m.S[s].bins[k]].items[j]])

\* C3: in every Solution held, position is set iff assigned_bin is set and
\* every member of a bin has a position.
C3_PositionIffAssigned == \A s \in Held : PositionIffAssigned(mem, s)

\* the state C3 is about: SimulatedAnnealing holds a current_solution in
\* which a bin has a member without a position
C3_Witness ==
  /\ pc = "sa"
  /\ \E k \in 1..Len(mem.S[current].bins) :
       \E j \in 1..Len(mem.B[mem.S[current].bins[k]].items) :
         LET it == mem.I[mem.B[mem.S[current].bins[k]].items[j]]
         IN ~is_placed(it) /\ is_assigned(it)

\* the states in which operators are about to be applied to Input: a driver
\* can be started, or is at the head of an iteration of its loop
OperatorsDue ==
  \/ pc = "ready"
  \/ pc = "ls" /\ iteration < MaxIterations
  \/ /\ pc = "sa"
     /\ above_min_temp(temperature, annealer.min_temp)
     /\ trial < annealer.iterations_per_temp

\* C4: in every state in which operators are about to be applied, no
\* operator, for any arguments, no get_all_* generator and no outcome
\* of get_random_neighbor changes what can be observed of the Solution it is
\* given (its bins, their members, every item's position, rotation and
\* assigned_bin), whether it returns a candidate or None; and what can be
\* observed of the Solution given to LocalSearch.solve or
\* SimulatedAnnealing.solve stays what it was at the call.
C4_InputNotMutated ==
  /\ OperatorsDue =>
       /\ \A r \in OperatorResults(mem, Input) : View(r.mem, Input) = View(mem, Input)
       /\ \A m \in AllGeneratorHeaps(mem, Input) : View(m, Input) = View(mem, Input)
       /\ \A r \in RandomNeighbors(mem, Input) : View(r.mem, Input) = View(mem, Input)
  /\ pc \in {"ls", "ls_done", "sa", "sa_done"} => View(mem, solution) = solView

\* SimulatedAnnealing.solve has ended after moving away from the initial
\* Solution, on which operators returned candidates and None
C4_Witness ==
  /\ pc = "sa_done"
  /\ View(mem, current) # solView
  /\ \E r \in OperatorResults(mem, solution) : r.sol # NoSol
  /\ \E r \in OperatorResults(mem, solution) : r.sol = NoSol

\* an API call on one Solution leaves what can be observed of the other
\* (its bin list, each bin's members, every item's state) as it was
OtherUnchanged ==
  (pc = "api" /\ pc' = "api") =>
    IF lastCall'[2] = "copy"
    THEN View(mem', solution') = View(mem, solution)
    ELSE View(mem', current') = View(mem, current)

\* C5: after c = solution.copy(), every call of add_bin, Bin.add_item,
\* Bin.remove_item, Bin.clear, Item.set_position, Item.set_rotation,
\* pack_items_in_bin (and get_fitness) on c and its bins and items leaves the
\* original's bin list, memberships and item states unchanged, and every
\* such call on the original leaves those of c unchanged.
C5_CopyIndependent == [][OtherUnchanged]_vars

\* the copy was mutated, then the original: both differ from what was copied
C5_Witness ==
  /\ pc = "api"
  /\ lastCall # <<>> /\ lastCall[2] = "original"
  /\ View(mem, solution) # solView
  /\ View(mem, current) # solView
  /\ View(mem, solution) # View(mem, current)

\* copy() of Solution s has the same bins (ids, order, member ids), the same
\* item states and the same cached fitness, and get_fitness() agrees
CopyEquivalent(m, s) ==
  LET c == Solution_copy(m, s)
  IN /\ c.sol # s
     /\ View(c.mem, c.sol) = View(m, s)
     /\ c.mem.S[c.sol].fitness = m.S[s].fitness
     /\ FitEq(Fit(c.mem, c.sol), Fit(c.mem, s))

\* C6: for every Solution held in a run of FFD and the search drivers, copy()
\* has the same number of bins with the same ids in the same order, the same
\* item ids in each bin, identical position, rotation and assigned_bin of
\* every item, and the cached fitness carried over, so that
\* copy().get_fitness() == original.get_fitness().
C6_CopyEquivalent == \A s \in Held : CopyEquivalent(mem, s)

\* SimulatedAnnealing holds a current_solution with a cached fitness that an
\* operator made and in which an item is unassigned
C6_Witness ==
  /\ pc = "sa"
  /\ mem.S[current].fitness # NoFit
  /\ View(mem, current) # solView
  /\ \E i \in 1..Len(mem.S[current].all_items) :
       ~is_assigned(mem.I[mem.S[current].all_items[i]])

\* C7: after any sequence of API calls, get_fitness() on either Solution
\* returns the value calculate_fitness() computes for the current state.
C7_FitnessCacheFresh ==
  pc = "api" => \A t \in Targets : FitEq(Fit(mem, t), FitnessValue(mem, t))

\* the state C7 is about: after Bin.remove_item a cached fitness is not the
\* fitness of the state
C7_Witness ==
  /\ pc = "api"
  /\ lastCall # <<>> /\ lastCall[1] = "remove_item"
  /\ \E t \in Targets :
       /\ mem.S[t].fitness # NoFit
       /\ FitLess(Fit(mem, t), FitnessValue(mem, t))

\* C8: in a run of LocalSearch.solve the fitness values of current_solution
\* recorded at successive iterations strictly decrease, the fitness of
\* current_solution is strictly below the last one recorded while the loop
\* goes on and never above it, and the Solution returned has a fitness less
\* than or equal to that of the initial Solution.
C8_LSMonotone ==
  /\ \A k \in 1..(Len(history) - 1) : FitLess(history[k + 1], history[k])
  /\ (pc = "ls" /\ history # <<>>)
       => FitLess(Fit(mem, current), history[Len(history)])
  /\ (pc = "ls_done" /\ history # <<>>)
       => FitLeq(Fit(mem, current), history[Len(history)])
  /\ pc = "ls_done" => FitLeq(Fit(mem, result), Fit(mem, solution))

\* LocalSearch.solve has returned a Solution better than the initial one
\* after two iterations
C8_Witness ==
  /\ pc = "ls_done"
  /\ Len(history) >= 2
  /\ FitLess(Fit(mem, result), Fit(mem, solution))

\* a step of LocalSearch.solve: at the bound it returns; below it, it stops
\* exactly when no neighbor of current_solution is strictly better (there
\* may be no neighbor at all), and otherwise current_solution becomes a
\* neighbor than which no neighbor is better
LSStep ==
  pc = "ls" =>
    LET all == all_neighbors(mem, current)
        m1 == fitness_all(all.mem, all.neighbors, 1)
        improving == {k \in 1..Len(all.neighbors) :
                        FitLess(Fit(m1, all.neighbors[k]), Fit(m1, current))}
    IN IF iteration >= MaxIterations
       THEN pc' = "ls_done" /\ iteration' = iteration
       ELSE /\ iteration' = iteration + 1
            /\ (pc' = "ls_done") <=> (improving = {})
            /\ improving = {} => View(mem', current') = View(mem, current)
            /\ improving # {} =>
                 /\ pc' = "ls"
                 /\ \E k \in improving : View(mem', current') = View(m1, all.neighbors[k])
                 /\ \A k \in 1..Len(all.neighbors) :
                      FitLeq(Fit(mem', current'), Fit(m1, all.neighbors[k]))

\* C9: LocalSearch.solve makes at most MaxIterations iterations: every step
\* of the loop counts one and at the bound the step taken returns.  Before
\* that bound it stops exactly when the swap, move and rebalance neighbors of
\* current_solution are none or the least fitness among them is not strictly
\* below that of current_solution, and otherwise current_solution moves to a
\* neighbor of least fitness.
C9_LSTerminates ==
  /\ [][LSStep]_vars
  /\ [](iteration <= MaxIterations)

\* LocalSearch.solve has moved once and then stopped at a local optimum that
\* has neighbors
C9_Witness ==
  /\ pc = "ls_done"
  /\ Len(history) = 2
  /\ View(mem, current) # solView
  /\ FitEq(Fit(mem, current), history[2])

\* a step of SimulatedAnnealing.solve that changes best_solution: it has
\* accepted a neighbor strictly better than best_solution, which is now
\* both current_solution and, as a copy, best_solution
BestStep ==
  (pc = "sa" /\ View(mem', best') # View(mem, best)) =>
    /\ FitLess(Fit(mem', best'), Fit(mem, best))
    /\ View(mem', best') = View(mem', current')
    /\ best' # current'

\* C10: throughout SimulatedAnnealing.solve the fitness of best_solution is
\* at most the least fitness current_solution has had, the initial one
\* included; best_solution changes only in a step that accepts a neighbor
\* strictly better than it; and solve returns best_solution.
C10_SABest ==
  /\ [](pc \in {"sa", "sa_done"} =>
          /\ FitLeq(Fit(mem, best), lowest)
          /\ FitLeq(lowest, Fit(mem, current)))
  /\ [][BestStep]_vars
  /\ [](pc = "sa_done" => result = best /\ result # current)

\* SimulatedAnnealing.solve has returned a best_solution that it found and
\* that is strictly better than the final current_solution
C10_Witness ==
  /\ pc = "sa_done"
  /\ View(mem, result) # solView
  /\ FitLess(Fit(mem, result), Fit(mem, current))

\* ------------------------------------------------------------------------
\* SimulatedAnnealing.solve: the loops
\* ------------------------------------------------------------------------
\* the smallest k with initial_temp * cooling_rate^k <= min_temp
LevelsNeeded(sa) ==
  CHOOSE k \in 0..(MaxLevels + 1) :
    /\ sa.initial_temp * sa.cooling_rate[1]^k <= sa.min_temp * sa.cooling_rate[2]^k
    /\ \A j \in 0..(k - 1) :
         sa.initial_temp * sa.cooling_rate[1]^j > sa.min_temp * sa.cooling_rate[2]^j

TempAbove == temperature[1] > annealer.min_temp * temperature[2]

\* one step of solve: a trial, the end of a level, or the return
SALoopStep ==
  pc = "sa" =>
    /\ annealer' = annealer
    /\ \/ /\ pc' = "sa" /\ TempAbove
          /\ trial < annealer.iterations_per_temp /\ trial' = trial + 1
          /\ level' = level /\ temperature' = temperature
       \/ /\ pc' = "sa" /\ TempAbove
          /\ trial = annealer.iterations_per_temp /\ trial' = 0
          /\ level' = level + 1
          /\ temperature'[1] * temperature[2] * annealer.cooling_rate[2]
               = temperature[1] * annealer.cooling_rate[1] * temperature'[2]
          /\ current' = current /\ best' = best /\ mem' = mem
       \/ /\ pc' = "sa_done" /\ ~TempAbove
          /\ trial = 0 /\ level = LevelsNeeded(annealer)
          /\ UNCHANGED <<temperature, level, trial>>

\* the temperature of level k is initial_temp * cooling_rate^k, and the
\* levels and the trials of a level are bounded
SALoopBounded ==
  pc \in {"sa", "sa_done"} =>
    /\ annealer.min_temp > 0
    /\ 0 < annealer.cooling_rate[1] /\ annealer.cooling_rate[1] < annealer.cooling_rate[2]
    /\ temperature[1] * annealer.cooling_rate[2]^level
         = annealer.initial_temp * annealer.cooling_rate[1]^level * temperature[2]
    /\ level <= LevelsNeeded(annealer)
    /\ trial <= annealer.iterations_per_temp
    /\ (level = LevelsNeeded(annealer)) = ~TempAbove

FFDStepOK(m0, m1, s, r) ==
  LET bins0 == m0.S[s].bins
      bins1 == m1.S[s].bins
      admitting == {j \in 1..Len(bins0) :
                      find_best_position_for_item(m0, bins0[j], r) # <<>>}
      home == {j \in 1..Len(bins1) :
                 \E k \in 1..Len(m1.B[bins1[j]].items) : m1.B[bins1[j]].items[k] = r}
      placed_as(j, res) ==
        /\ m1.B[bins1[j]].items = Append(IF j <= Len(bins0) THEN m0.B[bins0[j]].items
                                         ELSE <<>>, r)
        /\ m1.I[r] = [m0.I[r] EXCEPT !.position = <<res[1], res[2], res[3]>>,
                                     !.rotation = res[4],
                                     !.assigned_bin = m1.B[bins1[j]].id]
  IN /\ \A q \in 1..Len(m0.I) : q # r => m1.I[q] = m0.I[q]
     /\ \A j \in 1..Len(bins0) :
          /\ bins1[j] = bins0[j]
          /\ j \notin home => m1.B[bins1[j]] = m0.B[bins0[j]]
     /\ IF admitting # {}
        THEN /\ Len(bins1) = Len(bins0)
             /\ \E j \in admitting :
                  /\ \A l \in 1..(j - 1) : l \notin admitting
                  /\ home = {j}
                  /\ placed_as(j, find_best_position_for_item(m0, bins0[j], r))
        ELSE /\ Len(bins1) = Len(bins0) + 1
             /\ home \subseteq {Len(bins1)}
             /\ home = {} => m1.I[r] = m0.I[r] /\ m1.B[bins1[Len(bins1)]].items = <<>>
             /\ home # {} =>
                  placed_as(Len(bins1),
                            find_best_position_for_item(
                              add_bin(m0, s).mem, add_bin(m0, s).bin, r))

\* C12: first_fit_decreasing takes the items in non-increasing volume order
\* and puts each into the lowest-index existing bin for which
\* find_best_position_for_item succeeds at that moment, so that every bin
\* before the item's bin had refused it; it creates a bin only when no
\* existing bin admits the item.
C12_FirstFit ==
  pc = "ffd" =>
    LET made == Solution(EmptyMem, inst.bin, PackItems(inst))
        s == made.sol
        all == made.mem.S[s].all_items
        order == SortByVolume(made.mem, all, 1, <<>>)
        After(k) == ffd_loop(made.mem, s, SubSeq(order, 1, k), 1)
    IN /\ Len(order) = Len(all)
       /\ \A k \in 1..Len(all) : \E j \in 1..Len(order) : order[j] = all[k]
       /\ \A k \in 1..(Len(order) - 1) :
            Item_get_volume(made.mem.I[order[k]]) >= Item_get_volume(made.mem.I[order[k + 1]])
       /\ \A k \in 1..Len(order) : FFDStepOK(After(k - 1), After(k), s, order[k])
       /\ View(mem, solution) = View(After(Len(order)), s)

\* an item has gone into the second bin, which existed, after the first bin
\* refused it
C12_Witness ==
  /\ pc = "ffd"
  /\ Len(mem.S[solution].bins) >= 2
  /\ Len(mem.B[mem.S[solution].bins[1]].items) >= 1
  /\ Len(mem.B[mem.S[solution].bins[2]].items) >= 2

\* the item shape d fits the empty bin of shape b in some orientation
FitsSomeWay(d, b) ==
  \E p \in {<<1, 2, 3>>, <<1, 3, 2>>, <<2, 1, 3>>, <<2, 3, 1>>, <<3, 1, 2>>, <<3, 2, 1>>} :
    d[p[1]] <= b[1] /\ d[p[2]] <= b[2] /\ d[p[3]] <= b[3]

RECURSIVE TotalVolume(_, _)
TotalVolume(shapes, k) ==
  IF k > Len(shapes) THEN 0
  ELSE shapes[k][1] * shapes[k][2] * shapes[k][3] + TotalVolume(shapes, k + 1)

\* ceil(a / b) for a >= 0, b > 0
Ceil(a, b) == (a + b - 1) \div b

\* C13: when every item of the instance (ids pairwise distinct) fits the
\* empty bin in some rotation, the Solution of first_fit_decreasing has no
\* unassigned item and no infeasible bin, is_valid() is true, and it uses at
\* least ceil(total item volume / bin volume) bins; the small instance of
\* eight items and bins (10, 8, 6) uses at least 2 bins and is valid.
C13_FFDValid ==
  pc = "ffd" /\ (\A k \in 1..Len(inst.items) : FitsSomeWay(inst.items[k], inst.bin)) =>
    /\ Len(get_unpacked_items(mem, solution)) = 0
    /\ \A k \in 1..Len(mem.S[solution].bins) : is_feasible(mem, mem.S[solution].bins[k])
    /\ is_valid(mem, solution)
    /\ Len(get_used_bins(mem, solution))
         >= Ceil(TotalVolume(inst.items, 1), inst.bin[1] * inst.bin[2] * inst.bin[3])
    /\ inst = SmallInstance =>
         /\ TotalVolume(inst.items, 1) = 602
         /\ Len(get_used_bins(mem, solution)) >= 2

\* the small instance packed: two bins, item 8 beside item 1 in the first
C13_Witness ==
  /\ pc = "ffd"
  /\ inst = SmallInstance
  /\ is_valid(mem, solution)
  /\ Len(get_used_bins(mem, solution)) = 2
  /\ IdsOf(mem, mem.B[mem.S[solution].bins[1]].items) = <<1, 6, 7, 8>>
  /\ IdsOf(mem, mem.B[mem.S[solution].bins[2]].items) = <<2, 3, 4, 5>>
  /\ mem.I[mem.S[solution].all_items[8]].position = <<8, 0, 0>>
  /\ mem.I[mem.S[solution].all_items[8]].rotation = 4
  /\ mem.I[mem.S[solution].all_items[3]].position = <<0, 5, 0>>
  /\ mem.I[mem.S[solution].all_items[3]].rotation = 1

\* the items of the Solution that exceed the bin in every rotation
TooLarge(m, s) ==
  {r \in {m.S[s].all_items[k] : k \in 1..Len(m.S[s].all_items)} :
     ~FitsSomeWay(<<m.I[r].length, m.I[r].width, m.I[r].height>>, m.S[s].bin_dimensions)}

InSeq(x, seq) == \E k \in 1..Len(seq) : seq[k] = x

\* C14: an item that exceeds the bin in every one of the 6 rotations is
\* never placed: find_best_position_for_item returns None for it against
\* every bin, empty or not; pack_items_in_bin returns it as unpacked;
\* first_fit_decreasing leaves it unassigned and get_statistics counts it in
\* unpacked_items.
C14_TooLargeNeverPlaced ==
  solution # NoSol =>
    \A r \in TooLarge(mem, solution) :
      /\ \A k \in 1..Len(mem.S[solution].bins) :
           /\ find_best_position_for_item(mem, mem.S[solution].bins[k], r) = <<>>
           /\ ~InSeq(r, mem.B[mem.S[solution].bins[k]].items)
      /\ ~is_placed(mem.I[r]) /\ ~is_assigned(mem.I[r])
      /\ InSeq(r, get_unpacked_items(mem, solution))
      /\ (lastCall # <<>> /\ lastCall.name = "pack_items_in_bin"
            /\ InSeq(mem.I[r].id, lastCall.items)) =>
           /\ InSeq(mem.I[r].id, lastCall.unpacked)
           /\ ~InSeq(mem.I[r].id, lastCall.packed)
      /\ pc = "stats" =>
           /\ lastCall.stats.unpacked_items = Len(get_unpacked_items(mem, solution))
           /\ lastCall.stats.unpacked_items >= Cardinality(TooLarge(mem, solution))
           /\ ~lastCall.stats.is_valid

\* first_fit_decreasing has packed an item and left a too large one out, and
\* get_statistics reports it
C14_Witness ==
  /\ pc = "stats"
  /\ Cardinality(TooLarge(mem, solution)) = 1
  /\ lastCall.stats.unpacked_items = 1
  /\ lastCall.stats.total_items = 3
  /\ lastCall.stats.used_bins >= 1
  /\ ~lastCall.stats.is_valid

\* ------------------------------------------------------------------------
\* Item: rotations
\* ------------------------------------------------------------------------
\* the number of times v occurs in the triple d
Occurrences(d, v) == Cardinality({k \in 1..3 : d[k] = v})

Turned(it, rotation) == get_dimensions([it EXCEPT !.rotation = rotation])

\* get_dimensions and get_volume of item it under the six rotations
RotationsOK(it) ==
  LET original == <<it.length, it.width, it.height>>
  IN /\ Turned(it, 0) = original
     /\ \A rotation \in 0..5 :
          /\ \A v \in {original[1], original[2], original[3]} :
               Occurrences(Turned(it, rotation), v) = Occurrences(original, v)
          /\ Item_get_volume([it EXCEPT !.rotation = rotation]) = Item_get_volume(it)
          /\ Turned(it, rotation)[1] * Turned(it, rotation)[2] * Turned(it, rotation)[3]
               = Item_get_volume(it)
     \* six distinct axis permutations: told apart by three distinct extents
     /\ Cardinality({original[1], original[2], original[3]}) = 3 =>
          Cardinality({Turned(it, rotation) : rotation \in 0..5}) = 6

\* set_rotation: an index in 0..5 is stored, any other raises and leaves the
\* heap as it was
SetRotationOK(m, r) ==
  /\ \A rotation \in 0..5 :
       /\ ~set_rotation_raises(rotation)
       /\ set_rotation(m, r, rotation) = [m EXCEPT !.I[r].rotation = rotation]
  /\ \A rotation \in {-2, -1, 6, 7} :
       /\ set_rotation_raises(rotation)
       /\ set_rotation(m, r, rotation) = m

\* a set_rotation call of the caller
SetRotationStep ==
  (lastCall' # lastCall /\ lastCall'.name = "set_rotation") =>
    /\ lastCall'.raised = (lastCall'.rotation \notin 0..5)
    /\ \A k \in 1..Len(mem.S[solution].all_items) :
         LET before == mem.I[mem.S[solution].all_items[k]]
             after == mem'.I[mem'.S[solution'].all_items[k]]
         IN IF before.id = lastCall'.item /\ ~lastCall'.raised
            THEN after = [before EXCEPT !.rotation = lastCall'.rotation]
            ELSE after = before

\* C15: for every item and every rotation index 0..5, get_dimensions is a
\* permutation of (length, width, height) with the same multiset of values,
\* index 0 is the identity and the six indices are six distinct axis
\* permutations, and get_volume is the same under every rotation;
\* set_rotation with an index outside 0..5 fails and leaves the rotation
\* unchanged.
C15_Rotations ==
  /\ [](\A r \in 1..Len(mem.I) : RotationsOK(mem.I[r]) /\ SetRotationOK(mem, r))
  /\ [][SetRotationStep]_vars

\* the caller has passed 6 to set_rotation of an item of three distinct
\* extents that had been turned to rotation 5 before
C15_Witness ==
  /\ lastCall # <<>>
  /\ lastCall.name = "set_rotation"
  /\ lastCall.rotation = 6
  /\ lastCall.raised
  /\ \E r \in 1..Len(mem.I) :
       /\ mem.I[r].id = lastCall.item
       /\ mem.I[r].rotation = 5
       /\ Cardinality({mem.I[r].length, mem.I[r].width, mem.I[r].height}) = 3
       /\ get_dimensions(mem.I[r]) = <<mem.I[r].height, mem.I[r].width, mem.I[r].length>>

\* ------------------------------------------------------------------------
\* Bin.check_overlap
\* ------------------------------------------------------------------------
\* the least and the greatest coordinate of a placed item on axis k
MinOn(it, k) == it.position[k]

MaxOn(it, k) == it.position[k] + get_dimensions(it)[k]

\* the unit cells a placed item fills
Cells(it) ==
  (MinOn(it, 1)..(MaxOn(it, 1) - 1)) \X (MinOn(it, 2)..(MaxOn(it, 2) - 1))
    \X (MinOn(it, 3)..(MaxOn(it, 3) - 1))

\* the boxes share a face: they meet on one axis and intersect on the others
Touching(a, b) ==
  \E k \in 1..3 :
    /\ MaxOn(a, k) = MinOn(b, k) \/ MaxOn(b, k) = MinOn(a, k)
    /\ \A j \in (1..3) \ {k} : MinOn(a, j) < MaxOn(b, j) /\ MaxOn(a, j) > MinOn(b, j)

OverlapOK(a, b) ==
  /\ check_overlap(a, b) =
       (/\ is_placed(a) /\ is_placed(b)
        /\ \A k \in 1..3 : MinOn(a, k) < MaxOn(b, k) /\ MaxOn(a, k) > MinOn(b, k))
  /\ (is_placed(a) /\ is_placed(b)) =>
       /\ check_overlap(a, b) = (Cells(a) \cap Cells(b) # {})
       /\ Touching(a, b) => ~check_overlap(a, b)
  /\ check_overlap(a, b) = check_overlap(b, a)

\* C16: check_overlap(a, b) is true if and only if both items are placed and
\* their boxes intersect strictly on all three axes, that is, share a cell;
\* boxes that only touch on a face do not overlap; the relation is symmetric.
C16_Overlap ==
  \A a, b \in 1..Len(mem.I) : OverlapOK(mem.I[a], mem.I[b])

\* a bin holds two items that overlap and two that share a face
C16_Witness ==
  \E s \in Held : \E i \in 1..Len(mem.S[s].bins) :
    LET items == mem.B[mem.S[s].bins[i]].items
    IN /\ \E j, k \in 1..Len(items) :
            /\ j # k
            /\ check_overlap(mem.I[items[j]], mem.I[items[k]])
            /\ Cells(mem.I[items[j]]) # Cells(mem.I[items[k]])
       /\ \E j, k \in 1..Len(items) :
            /\ is_placed(mem.I[items[j]]) /\ is_placed(mem.I[items[k]])
            /\ Touching(mem.I[items[j]], mem.I[items[k]])
            /\ ~check_overlap(mem.I[items[j]], mem.I[items[k]])

\* ------------------------------------------------------------------------
\* find_best_position_for_item
\* ------------------------------------------------------------------------
\* the corner-point candidates of bin b: the origin, and for every placed
\* item of the bin the corners of its box other than its own position
Corners(m, b) ==
  LET items == m.B[b].items
      of(it) == ({MinOn(it, 1), MaxOn(it, 1)} \X {MinOn(it, 2), MaxOn(it, 2)}
                   \X {MinOn(it, 3), MaxOn(it, 3)}) \ {it.position}
  IN {<<0, 0, 0>>} \cup
     UNION {of(m.I[items[k]]) : k \in {j \in 1..Len(items) : is_placed(m.I[items[j]])}}

\* item r, turned to the rotation and put at p, lies within bin b and shares
\* no cell with another item of the bin
ValidAt(m, b, r, rotation, p) ==
  LET it == [m.I[r] EXCEPT !.rotation = rotation, !.position = p]
      bin == m.B[b]
  IN /\ \A k \in 1..3 : MinOn(it, k) >= 0
     /\ MaxOn(it, 1) <= bin.length /\ MaxOn(it, 2) <= bin.width /\ MaxOn(it, 3) <= bin.height
     /\ \A k \in 1..Len(bin.items) :
          (m.I[bin.items[k]].id # it.id /\ is_placed(m.I[bin.items[k]])) =>
            Cells(it) \cap Cells(m.I[bin.items[k]]) = {}

ValidCorners(m, b, r, rotation) ==
  {p \in Corners(m, b) : ValidAt(m, b, r, rotation, p)}

\* p comes before q in ascending (z, x, y) order
Before(p, q) == <<p[3], p[1], p[2]>> # <<q[3], q[1], q[2]>> /\ PointLeq(p, q)

BestPositionOK(m, b, r, res) ==
  IF \A rotation \in 0..5 : ValidCorners(m, b, r, rotation) = {}
  THEN res = <<>>
  ELSE /\ res # <<>>
       /\ res[4] \in 0..5
       /\ LET p == <<res[1], res[2], res[3]>>
          IN /\ p \in ValidCorners(m, b, r, res[4])
             /\ \A q \in ValidCorners(m, b, r, res[4]) : ~Before(q, p)
             /\ \A rotation \in 0..5 : \A q \in ValidCorners(m, b, r, rotation) :
                  /\ q[3] >= p[3]
                  /\ rotation < res[4] => q[3] > p[3]

\* C17: find_best_position_for_item returns None if and only if no rotation
\* has a corner-point candidate that is within the bin and overlaps no
\* contained item; otherwise it returns (x, y, z, r), a valid placement whose
\* z is the least over the valid candidates of all six rotations, the point
\* being the first valid candidate of rotation r in ascending (z, x, y)
\* order and r the lowest rotation that reaches that z.
C17_BestPosition ==
  solution # NoSol =>
    \A i \in 1..Len(mem.S[solution].bins) : \A k \in 1..Len(mem.S[solution].all_items) :
      BestPositionOK(mem, mem.S[solution].bins[i], mem.S[solution].all_items[k],
                     find_best_position_for_item(mem, mem.S[solution].bins[i],
                                                 mem.S[solution].all_items[k]))

\* a bin with a placed item takes an unassigned item beside it, turned; a
\* later rotation reaches the same height, and another unassigned item has
\* no position in the bin
C17_Witness ==
  /\ pc = "pack"
  /\ \E r \in {mem.S[solution].all_items[k] : k \in 1..Len(mem.S[solution].all_items)} :
       LET b == mem.S[solution].bins[1]
           res == find_best_position_for_item(mem, b, r)
       IN /\ ~is_assigned(mem.I[r])
          /\ res # <<>>
          /\ res[4] > 0
          /\ <<res[1], res[2], res[3]>> # <<0, 0, 0>>
          /\ \E rotation \in (res[4] + 1)..5 : \E q \in ValidCorners(mem, b, r, rotation) :
               q[3] = res[3]
  /\ \E r \in {mem.S[solution].all_items[k] : k \in 1..Len(mem.S[solution].all_items)} :
       /\ ~is_assigned(mem.I[r])
       /\ r \notin TooLarge(mem, solution)
       /\ find_best_position_for_item(mem, mem.S[solution].bins[1], r) = <<>>

\* ------------------------------------------------------------------------
\* pack_items_in_bin
\* ------------------------------------------------------------------------
\* the Item object of Solution s with the id
RefOf(m, s, id) ==
  CHOOSE r \in {m.S[s].all_items[k] : k \in 1..Len(m.S[s].all_items)} : m.I[r].id = id

\* sub is seq with some entries left out
RECURSIVE IsSubSeq(_, _)
IsSubSeq(sub, seq) ==
  IF sub = <<>> THEN TRUE
  ELSE IF seq = <<>> THEN FALSE
       ELSE IF Head(sub) = Head(seq) THEN IsSubSeq(Tail(sub), Tail(seq))
            ELSE IsSubSeq(sub, Tail(seq))

\* The heap m1 after the call, taken back to the moment before the k-th
\* packed item was placed: that item and the later ones are out of the bin
\* and as they were in m0.
BeforePacking(m0, m1, s, b, packed, k) ==
  LET later == {packed[j] : j \in k..Len(packed)}
      refs == {RefOf(m1, s, id) : id \in later}
  IN [m1 EXCEPT
        !.B[b].items = SelectSeq(@, LAMBDA r : r \notin refs),
        !.I = [r \in DOMAIN m1.I |->
                 IF r \in refs THEN m0.I[RefOf(m0, s, m1.I[r].id)] ELSE m1.I[r]]]

\* a call packed, unpacked = pack_items_in_bin(bin, items, sort_items)
PackStepOK ==
  (calls' = calls + 1 /\ lastCall'.name = "pack_items_in_bin") =>
    LET c == lastCall'
        s == solution
        b0 == mem.S[s].bins[c.bin]
        b1 == mem'.S[solution'].bins[c.bin]
        old == IdsOf(mem, mem.B[b0].items)
        before(id) == mem.I[RefOf(mem, s, id)]
        after(id) == mem'.I[RefOf(mem', solution', id)]
        given == {c.items[k] : k \in 1..Len(c.items)}
        packed == {c.packed[k] : k \in 1..Len(c.packed)}
        unpacked == {c.unpacked[k] : k \in 1..Len(c.unpacked)}
        volume(id) == Item_get_volume(before(id))
    IN \* (packed, unpacked) partition the input
       /\ packed \cup unpacked = given
       /\ packed \cap unpacked = {}
       /\ Len(c.packed) + Len(c.unpacked) = Len(c.items)
       \* in the order given, or largest first (equal volumes in the order given)
       /\ ~c.sort_items => IsSubSeq(c.packed, c.items) /\ IsSubSeq(c.unpacked, c.items)
       /\ c.sort_items =>
            \A l \in {c.packed, c.unpacked} : \A i, j \in 1..Len(l) :
              i < j => /\ volume(l[i]) >= volume(l[j])
                       /\ volume(l[i]) = volume(l[j]) => IsSubSeq(<<l[i], l[j]>>, c.items)
       \* the bin: its previous contents, unchanged, and the packed items
       /\ IdsOf(mem', mem'.B[b1].items) = old \o c.packed
       /\ [mem'.B[b1] EXCEPT !.items = <<>>] = [mem.B[b0] EXCEPT !.items = <<>>]
       /\ \A id \in ItemIds(mem, s) \ packed : after(id) = before(id)
       \* every unpacked item is left out of the bin
       /\ \A id \in unpacked :
            /\ ~InSeq(id, IdsOf(mem', mem'.B[b1].items))
            /\ ~is_assigned(after(id))
       \* every packed item was placed against the contents of that moment
       /\ \A k \in 1..Len(c.packed) :
            LET r == RefOf(mem', solution', c.packed[k])
                at == BeforePacking(mem, mem', solution', b1, c.packed, k)
            IN /\ find_best_position_for_item(at, b1, r)
                    = mem'.I[r].position \o <<mem'.I[r].rotation>>
               /\ mem'.I[r].assigned_bin = mem'.B[b1].id
               /\ ValidAt(mem', b1, r, mem'.I[r].rotation, mem'.I[r].position)
               /\ [mem'.I[r] EXCEPT !.position = NoPos, !.rotation = 0, !.assigned_bin = NoBin]
                    = [before(c.packed[k]) EXCEPT !.rotation = 0]

NoneUnassigned(m, s) ==
  \A k \in 1..Len(m.S[s].all_items) : m.I[m.S[s].all_items[k]].assigned_bin # NoBin

\* every item in bin b is placed and inside the bin, and no two share a cell
BinFeasible(m, b) ==
  LET items == m.B[b].items
      box == (0..(m.B[b].length - 1)) \X (0..(m.B[b].width - 1)) \X (0..(m.B[b].height - 1))
  IN /\ \A k \in 1..Len(items) :
          /\ m.I[items[k]].position # NoPos
          /\ Cells(m.I[items[k]]) \subseteq box
     /\ \A j, k \in 1..Len(items) :
          j # k => Cells(m.I[items[j]]) \cap Cells(m.I[items[k]]) = {}

\* no item id is in the lists of two bins
NoSharedId(m, s) ==
  \A i, j \in 1..Len(m.S[s].bins) :
    i # j => {m.I[r].id : r \in {m.B[m.S[s].bins[i]].items[k] :
                                   k \in 1..Len(m.B[m.S[s].bins[i]].items)}}
             \cap {m.I[r].id : r \in {m.B[m.S[s].bins[j]].items[k] :
                                        k \in 1..Len(m.B[m.S[s].bins[j]].items)}} = {}

\* C19: is_valid() is true if and only if there is no unassigned item, every
\* bin is feasible (every contained item placed, within bounds, no pair
\* overlapping) and no item id is in more than one bin's collection; a
\* Solution with an unassigned item is not valid.
C19_IsValid ==
  \A s \in Held :
    /\ is_valid(mem, s) =
         (/\ NoneUnassigned(mem, s)
          /\ \A i \in 1..Len(mem.S[s].bins) : BinFeasible(mem, mem.S[s].bins[i])
          /\ NoSharedId(mem, s))
    /\ Len(get_unpacked_items(mem, s)) > 0 => ~is_valid(mem, s)
    /\ \A i \in 1..Len(mem.S[s].bins) :
         is_feasible(mem, mem.S[s].bins[i]) = BinFeasible(mem, mem.S[s].bins[i])

\* one Solution is valid; the other has every item assigned and every bin
\* feasible, and is not valid because an item is in two bins
C19_Witness ==
  \E s, t \in Held :
    /\ is_valid(mem, s)
    /\ ~is_valid(mem, t)
    /\ NoneUnassigned(mem, t)
    /\ \A i \in 1..Len(mem.S[t].bins) : is_feasible(mem, mem.S[t].bins[i])
    /\ ~NoSharedId(mem, t)

\* ------------------------------------------------------------------------
\* Solution.calculate_fitness
\* ------------------------------------------------------------------------
\* the volumes held by the bins of Solution s that hold items
UsedVolumes(m, s) ==
  LET used == SelectSeq(m.S[s].bins, LAMBDA b : m.B[b].items # <<>>)
  IN [k \in 1..Len(used) |-> get_used_volume(m, used[k])]

RECURSIVE SumOf(_, _)
SumOf(v, k) == IF k = 0 THEN 0 ELSE v[k] + SumOf(v, k - 1)

\* the sum of (v[j] - v[k])^2 over the pairs j < k, from the pair <<j, k>> on
RECURSIVE PairSquares(_, _, _)
PairSquares(v, j, k) ==
  IF j >= Len(v) THEN 0
  ELSE IF k > Len(v) THEN PairSquares(v, j + 1, j + 2)
  ELSE (v[j] - v[k]) * (v[j] - v[k]) + PairSquares(v, j, k + 1)

Unassigned(m, s) ==
  Cardinality({k \in 1..Len(m.S[s].all_items) :
                 m.I[m.S[s].all_items[k]].assigned_bin = NoBin})

Infeasible(m, s) ==
  Cardinality({k \in 1..Len(m.S[s].bins) : ~BinFeasible(m, m.S[s].bins[k])})

BinVolume(m, s) ==
  m.S[s].bin_dimensions[1] * m.S[s].bin_dimensions[2] * m.S[s].bin_dimensions[3]

\* The record f stands for the number
\*   1000*n + 10*(100 - avg) + 50*std + 10000*u + 5000*i,
\* for n = Len(v) bins holding the volumes v out of V each: avg is the mean
\* of the utilizations 100*v[k]/V (0 without such a bin) and std their
\* standard deviation (left out for fewer than two bins), so that
\* n*V*avg = 100*Sum v and (n*V*std)^2 = 100^2 * Sum (v[j] - v[k])^2.
IsWeightedSum(f, v, V, u, i) ==
  LET n == Len(v)
      m == IF n = 0 THEN 1 ELSE n
  IN /\ f.n = m
     /\ FitnessUnit * f.P =
          (1000 * n + 10 * 100 + 10000 * u + 5000 * i) * m * V - 10 * 100 * SumOf(v, n)
     /\ f.D = IF n > 1 THEN PairSquares(v, 1, 2) ELSE 0
     /\ FitnessUnit * StdCoeff = 50 * 100

\* the number f1 stands for is the number f0 stands for plus w
RaisedBy(f0, f1, V, w) ==
  /\ f1.n = f0.n /\ f1.D = f0.D
  /\ FitnessUnit * (f1.P - f0.P) = w * f0.n * V

\* x * k and |x - y| as real numbers
ExactTimes(x, k) == ExactSum(x, k, FromInt(0), 1)

ExactGap(x, y) ==
  IF ExactLess(x, y) THEN ExactSum(y, 1, x, -1) ELSE ExactSum(x, 1, y, -1)

\* the float x is within the relative error 2^-50 of the number num / den
FloatNear(x, num, den) ==
  LET gap == ExactGap(ExactTimes(x, den), FromInt(num))
  IN ExactLess(<<gap[1], gap[2] + 50>>, FromInt(num))

\* the Solutions whose float fitness is modelled: at most one bin holds
\* items, and no more than its volume
FloatModelled(m, s) ==
  /\ Len(UsedVolumes(m, s)) <= 1
  /\ \A k \in 1..Len(UsedVolumes(m, s)) : UsedVolumes(m, s)[k] <= BinVolume(m, s)

BinsIndexed(m, s) ==
  \A k \in 1..Len(m.S[s].bins) : m.B[m.S[s].bins[k]].id = k - 1

\* Solution(bin_dimensions, items) has no bins and only unassigned items
CreatedEmpty(made) ==
  /\ made.mem.S[made.sol].bins = <<>>
  /\ \A k \in 1..Len(made.mem.S[made.sol].all_items) :
       ~is_assigned(made.mem.I[made.mem.S[made.sol].all_items[k]])

\* add_bin on Solution s keeps the bins there are and appends an empty bin
\* of the Solution's dimensions whose id is above every id there is
AppendsBin(m, s, added) ==
  LET d == m.S[s].bin_dimensions
      new_bin == added.mem.B[added.bin]
  IN /\ Len(added.mem.S[s].bins) = Len(m.S[s].bins) + 1
     /\ SubSeq(added.mem.S[s].bins, 1, Len(m.S[s].bins)) = m.S[s].bins
     /\ added.mem.S[s].bins[Len(m.S[s].bins) + 1] = added.bin
     /\ \A k \in 1..Len(m.S[s].bins) :
          /\ added.mem.B[m.S[s].bins[k]] = m.B[m.S[s].bins[k]]
          /\ m.B[m.S[s].bins[k]].id < new_bin.id
     /\ new_bin.items = <<>>
     /\ <<new_bin.length, new_bin.width, new_bin.height>> = d

\* the Solution a driver variable refers to after a step has no fewer bins
\* than the one it referred to before
KeepsBins(before, m, after, n) ==
  (before # NoSol /\ after # NoSol) => Len(m.S[before].bins) <= Len(n.S[after].bins)

\* C21: a new Solution has no bins and only unassigned items; add_bin
\* appends an empty bin of the Solution's dimensions with an id above the
\* others; in every Solution held after a step of first_fit_decreasing,
\* LocalSearch.solve or SimulatedAnnealing.solve and in its copy,
\* bins[i].id == i, and so it is in every Solution an operator returns on the
\* initial or the current Solution of LocalSearch; the operators and the
\* copy keep the number of bins, and no step of a driver lowers the number of
\* bins of solution, current or best.
C21_BinsIndexedNeverRemoved ==
  [][/\ CreatedEmpty(Solution(mem', Instances[inst].bin, InstanceItems(inst)))
     /\ \A s \in Held' :
          /\ BinsIndexed(mem', s)
          /\ AppendsBin(mem', s, add_bin(mem', s))
          /\ BinsIndexed(Solution_copy(mem', s).mem, Solution_copy(mem', s).sol)
          /\ KeepsBins(s, mem', Solution_copy(mem', s).sol, Solution_copy(mem', s).mem)
     /\ pc' \in {"ready", "ls"} =>
          \A r \in OperatorResults(mem', Input') :
            r.sol # NoSol =>
              /\ BinsIndexed(r.mem, r.sol)
              /\ KeepsBins(Input', mem', r.sol, r.mem)
              /\ KeepsBins(r.sol, r.mem, Input', mem')
     /\ KeepsBins(solution, mem, solution', mem')
     /\ KeepsBins(current, mem, current', mem')
     /\ KeepsBins(best, mem, best', mem')]_vars

\* a search run has moved to a Solution one of whose two bins an operator
\* has emptied: the empty bin is still in the list
C21_Witness ==
  /\ pc \in {"ls", "sa"}
  /\ current # NoSol
  /\ Len(mem.S[current].bins) = 2
  /\ Len(get_used_bins(mem, solution)) = 2
  /\ \E k \in 1..2 : is_empty(mem.B[mem.S[current].bins[k]])

\* ------------------------------------------------------------------------
\* The operators called on their own (SpecOps): in a step of OpsCall the
\* Solution the operator is called on is solution, unchanged by the call,
\* and what it returns is result' (NoSol for None).
\* ------------------------------------------------------------------------
OpCalled(name) == calls' = calls + 1 /\ lastCall'.name = name

\* the ids of the members of the bin of Solution s with id bin_id
IdsIn(m, s, bin_id) ==
  {m.I[m.B[get_bin_by_id(m, s, bin_id)].items[k]].id :
     k \in 1..Len(m.B[get_bin_by_id(m, s, bin_id)].items)}

ItemOf(m, s, item_id) == m.I[get_item_by_id(m, s, item_id)]

\* In Solution r the bin bin_id holds items of the pool only, each placed
\* and assigned to it, in the order largest first; the items of the pool it
\* does not hold are unassigned and have no position.
Repacked(m, r, bin_id, pool) ==
  LET items == m.B[get_bin_by_id(m, r, bin_id)].items
  IN /\ IdsIn(m, r, bin_id) \subseteq pool
     /\ \A k \in 1..Len(items) :
          /\ m.I[items[k]].assigned_bin = bin_id
          /\ is_placed(m.I[items[k]])
          /\ \A j \in 1..(k - 1) :
               /\ Item_get_volume(m.I[items[j]]) >= Item_get_volume(m.I[items[k]])
               /\ m.I[items[j]].id # m.I[items[k]].id
     /\ \A id \in pool \ IdsIn(m, r, bin_id) :
          /\ ItemOf(m, r, id).assigned_bin = NoBin
          /\ ItemOf(m, r, id).position = NoPos

\* Solution r (heap n) is Solution s (heap m) but for the bins with an id in
\* touched and the items of the pool
OthersKept(m, s, n, r, touched, pool) ==
  /\ Len(n.S[r].bins) = Len(m.S[s].bins)
  /\ ItemIds(n, r) = ItemIds(m, s)
  /\ \A b \in BinIds(m, s) \ touched :
       View(n, r).bins[b + 1] = View(m, s).bins[b + 1]
  /\ \A id \in ItemIds(m, s) \ pool : ItemOf(n, r, id) = ItemOf(m, s, id)

\* swap_items applies: both ids name items, assigned to different bins
SwapApplies(m, s, a, b) ==
  /\ a \in ItemIds(m, s) /\ b \in ItemIds(m, s)
  /\ is_assigned(ItemOf(m, s, a)) /\ is_assigned(ItemOf(m, s, b))
  /\ ItemOf(m, s, a).assigned_bin # ItemOf(m, s, b).assigned_bin

\* The two bins of Solution s cleared and packed again, largest first, the
\* bin of a from its items without a and with b, then the bin of b from its
\* items without b and with a.  [mem, both: neither a nor b was packed]
SwapPacked(m, s, a, b) ==
  LET i1 == get_item_by_id(m, s, a)
      i2 == get_item_by_id(m, s, b)
      bin1 == get_bin_by_id(m, s, m.I[i1].assigned_bin)
      bin2 == get_bin_by_id(m, s, m.I[i2].assigned_bin)
      second(p1) ==
        LET done(p2) ==
              [mem |-> p2.mem,
               both |-> InSeq(i1, p2.unpacked) /\ InSeq(i2, p1.unpacked)]
        IN done(pack_items_in_bin(p1.mem, bin2,
                                  Append(SelectSeq(m.B[bin2].items, LAMBDA x : x # i2), i1),
                                  TRUE))
  IN second(pack_items_in_bin(Bin_clear(Bin_clear(m, bin1), bin2), bin1,
                              Append(SelectSeq(m.B[bin1].items, LAMBDA x : x # i1), i2),
                              TRUE))

\* C22: swap_items(solution, a, b) returns a candidate only if a and b are
\* items assigned to different bins; then it returns None exactly when
\* neither of the two is packed after each of the two bins was cleared and
\* packed again, largest first, from its former items with a and b
\* exchanged; a candidate it returns is the Solution with the two bins so
\* packed: every item of the two bins is in the bin it was packed into or
\* unassigned, and the other bins and items are as they were.
C22_SwapItems ==
  [][OpCalled("swap_items") =>
       LET a == lastCall'.args[1]
           b == lastCall'.args[2]
           bin1 == ItemOf(mem, solution, a).assigned_bin
           bin2 == ItemOf(mem, solution, b).assigned_bin
           pool1 == (IdsIn(mem, solution, bin1) \ {a}) \cup {b}
           pool2 == (IdsIn(mem, solution, bin2) \ {b}) \cup {a}
           packed(p) ==
             /\ result' = NoSol <=> p.both
             /\ result' # NoSol =>
                  /\ View(mem', result') = View(p.mem, solution)
                  /\ Repacked(mem', result', bin1, pool1)
                  /\ Repacked(mem', result', bin2, pool2)
                  /\ OthersKept(mem, solution, mem', result', {bin1, bin2},
                                pool1 \cup pool2)
                  /\ ~(ItemOf(mem', result', a).assigned_bin = NoBin
                         /\ ItemOf(mem', result', b).assigned_bin = NoBin)
       IN IF SwapApplies(mem, solution, a, b)
          THEN packed(SwapPacked(mem, solution, a, b))
          ELSE result' = NoSol]_vars

\* swap_items has returned a candidate in which one of the two swapped items
\* and another item of the two bins are unassigned
C22_Witness ==
  /\ lastCall # <<>> /\ lastCall.name = "swap_items"
  /\ result # NoSol
  /\ \E u \in {lastCall.args[1], lastCall.args[2]} :
       /\ is_assigned(ItemOf(mem, solution, u))
       /\ ~is_assigned(ItemOf(mem, result, u))
  /\ \E id \in ItemIds(mem, solution) \ {lastCall.args[1], lastCall.args[2]} :
       /\ is_assigned(ItemOf(mem, solution, id))
       /\ ~is_assigned(ItemOf(mem, result, id))

\* move_item applies: the id names an assigned item and the target is a bin
\* of the Solution other than the item's
MoveApplies(m, s, a, target) ==
  /\ a \in ItemIds(m, s)
  /\ is_assigned(ItemOf(m, s, a))
  /\ target \in BinIds(m, s)
  /\ ItemOf(m, s, a).assigned_bin # target

\* The bin of item a and the target bin of Solution s cleared and packed
\* again, largest first, the former from its items without a, the target
\* from its items and a.  [mem, rejected: a was not packed]
MovePacked(m, s, a, target) ==
  LET i == get_item_by_id(m, s, a)
      old_bin == get_bin_by_id(m, s, m.I[i].assigned_bin)
      new_bin == get_bin_by_id(m, s, target)
      second(p_old) ==
        LET done(p_new) == [mem |-> p_new.mem, rejected |-> InSeq(i, p_new.unpacked)]
        IN done(pack_items_in_bin(p_old.mem, new_bin, Append(m.B[new_bin].items, i), TRUE))
  IN second(pack_items_in_bin(Bin_clear(Bin_clear(m, old_bin), new_bin), old_bin,
                              SelectSeq(m.B[old_bin].items, LAMBDA x : x # i), TRUE))

\* C23: move_item(solution, a, target) returns a candidate only if a is an
\* assigned item and target a bin of the Solution other than a's; then it
\* returns None exactly when a is not packed after a's bin was cleared and
\* packed again from its other items and the target bin from its items and
\* a; in a returned candidate a is a placed member of the target bin, every
\* other item of the two bins is in its bin or unassigned, and the other bins
\* and items are as they were.
C23_MoveItem ==
  [][OpCalled("move_item") =>
       LET a == lastCall'.args[1]
           target == lastCall'.args[2]
           source == ItemOf(mem, solution, a).assigned_bin
           pool1 == IdsIn(mem, solution, source) \ {a}
           pool2 == IdsIn(mem, solution, target) \cup {a}
           packed(p) ==
             /\ result' = NoSol <=> p.rejected
             /\ result' # NoSol =>
                  /\ View(mem', result') = View(p.mem, solution)
                  /\ Repacked(mem', result', source, pool1)
                  /\ Repacked(mem', result', target, pool2)
                  /\ OthersKept(mem, solution, mem', result', {source, target},
                                pool1 \cup pool2)
                  /\ a \in IdsIn(mem', result', target)
                  /\ ItemOf(mem', result', a).assigned_bin = target
                  /\ is_placed(ItemOf(mem', result', a))
       IN IF MoveApplies(mem, solution, a, target)
          THEN packed(MovePacked(mem, solution, a, target))
          ELSE result' = NoSol]_vars

\* move_item has returned a candidate in which an item other than the moved
\* one has become unassigned
C23_Witness ==
  /\ lastCall # <<>> /\ lastCall.name = "move_item"
  /\ result # NoSol
  /\ lastCall.args[1] \in IdsIn(mem, result, lastCall.args[2])
  /\ \E id \in ItemIds(mem, solution) \ {lastCall.args[1]} :
       /\ is_assigned(ItemOf(mem, solution, id))
       /\ ~is_assigned(ItemOf(mem, result, id))

\* The bins a and b of Solution s cleared, their items packed together,
\* largest first, into a, and the items a did not take packed, largest
\* first, into b.  The heap after it.
RebalancePacked(m, s, a, b) ==
  LET bin1 == get_bin_by_id(m, s, a)
      bin2 == get_bin_by_id(m, s, b)
      second(p1) ==
        IF p1.unpacked = <<>> THEN p1.mem
        ELSE pack_items_in_bin(p1.mem, bin2, p1.unpacked, TRUE).mem
  IN second(pack_items_in_bin(Bin_clear(Bin_clear(m, bin1), bin2), bin1,
                              m.B[bin1].items \o m.B[bin2].items, TRUE))

\* Solution r (heap n) is Solution s (heap m) with the items of the bins a
\* and b packed into a, the overflow into b: every item of the two bins is
\* in exactly one of bin a, bin b and the unassigned items.
Rebalanced(m, s, n, r, a, b) ==
  LET pool == IdsIn(m, s, a) \cup IdsIn(m, s, b)
  IN /\ View(n, r) = View(RebalancePacked(m, s, a, b), s)
     /\ IdsIn(n, r, a) \cup IdsIn(n, r, b) \subseteq pool
     /\ IdsIn(n, r, a) \cap IdsIn(n, r, b) = {}
     /\ \A id \in pool :
          /\ id \in IdsIn(n, r, a) <=> ItemOf(n, r, id).assigned_bin = a
          /\ id \in IdsIn(n, r, b) <=> ItemOf(n, r, id).assigned_bin = b
          /\ id \notin IdsIn(n, r, a) \cup IdsIn(n, r, b)
               <=> ItemOf(n, r, id).assigned_bin = NoBin
     /\ OthersKept(m, s, n, r, {a, b}, pool)

\* 100 times the difference of the utilizations of the bins a and b of
\* Solution s, times the volume of a bin
UtilizationGap(m, s, a, b) ==
  LET u1 == get_used_volume(m, get_bin_by_id(m, s, a))
      u2 == get_used_volume(m, get_bin_by_id(m, s, b))
  IN 100 * (IF u1 >= u2 THEN u1 - u2 ELSE u2 - u1)

\* C24: rebalance_bins(solution, a, b) on two bins of the Solution returns
\* None when their utilizations differ by less than 20 percentage points and
\* a candidate otherwise; in the candidate the items of both bins are packed,
\* largest first, into a, the overflow into b, and every one of them is in
\* exactly one of a, b and the unassigned items.
C24_RebalanceBins ==
  [][OpCalled("rebalance_bins") =>
       LET a == lastCall'.args[1]
           b == lastCall'.args[2]
       IN (a \in BinIds(mem, solution) /\ b \in BinIds(mem, solution)) =>
            /\ result' = NoSol
                 <=> UtilizationGap(mem, solution, a, b)
                       < 20 * Bin_get_volume(mem.B[get_bin_by_id(mem, solution, a)])
            /\ result' # NoSol => Rebalanced(mem, solution, mem', result', a, b)]_vars

\* rebalance_bins has returned None for two bins whose utilizations differ
\* by 20 percentage points
C24_Witness ==
  /\ lastCall # <<>> /\ lastCall.name = "rebalance_bins"
  /\ lastCall.args[1] \in BinIds(mem, solution)
  /\ lastCall.args[2] \in BinIds(mem, solution)
  /\ UtilizationGap(mem, solution, lastCall.args[1], lastCall.args[2])
       = 20 * Bin_get_volume(mem.B[get_bin_by_id(mem, solution, lastCall.args[1])])
  /\ result = NoSol

\* merge_bins_aggressive goes on to pack: a and b are different bins of the
\* Solution whose used volumes add up to no more than 1.5 bin volumes
MergeApplies(m, s, a, b) ==
  /\ a \in BinIds(m, s) /\ b \in BinIds(m, s)
  /\ a # b
  /\ 2 * (get_used_volume(m, get_bin_by_id(m, s, a))
            + get_used_volume(m, get_bin_by_id(m, s, b)))
       <= 3 * Bin_get_volume(m.B[get_bin_by_id(m, s, a)])

\* The bins a and b of Solution s cleared and their items packed together,
\* largest first, into a.  [mem, packed, unpacked]
MergePacked(m, s, a, b) ==
  pack_items_in_bin(Bin_clear(Bin_clear(m, get_bin_by_id(m, s, a)), get_bin_by_id(m, s, b)),
                    get_bin_by_id(m, s, a),
                    m.B[get_bin_by_id(m, s, a)].items \o m.B[get_bin_by_id(m, s, b)].items,
                    TRUE)

LeastUtilized(m, s) ==
  LET used == {k \in 1..Len(m.S[s].bins) : m.B[m.S[s].bins[k]].items # <<>>}
      least == {k \in used : \A j \in used :
                  get_used_volume(m, m.S[s].bins[k]) <= get_used_volume(m, m.S[s].bins[j])}
  IN m.B[m.S[s].bins[CHOOSE k \in least : \A j \in least : k <= j]].id

\* consolidate_small_bins goes on to relocate: two bins or more hold items
\* and the least utilized of them is used to 60% at most
ConsolidateApplies(m, s) ==
  /\ Cardinality({b \in BinIds(m, s) : IdsIn(m, s, b) # {}}) >= 2
  /\ 100 * get_used_volume(m, get_bin_by_id(m, s, LeastUtilized(m, s)))
       <= 60 * Bin_get_volume(m.B[get_bin_by_id(m, s, LeastUtilized(m, s))])

\* The heap after the bin source of Solution s is cleared and each of its
\* items, in turn, is offered to the other bins that hold items -- the bin
\* cleared and packed again, largest first, from its items and the offered
\* one -- until a bin takes it, and is put back into source if none does.
Consolidated(m, s, source) ==
  consolidate_loop(Bin_clear(m, get_bin_by_id(m, s, source)), s,
                   get_bin_by_id(m, s, source),
                   m.B[get_bin_by_id(m, s, source)].items, 1)

\* C26: consolidate_small_bins(solution) returns None if fewer than two
\* bins hold items or the least utilized of them is used to more than 60%;
\* otherwise it offers the items of that bin one at a time to the other bins
\* that hold items and returns the candidate iff the bin ends empty or with
\* fewer than half of the items it had; in a candidate every item of the bin
\* is in it, in another bin that held items, or unassigned, and no other
\* item has changed its bin for another.
C26_ConsolidateSmallBins ==
  [][OpCalled("consolidate_small_bins") =>
       LET source == LeastUtilized(mem, solution)
           before == IdsIn(mem, solution, source)
           relocated(m1) ==
             /\ result' # NoSol
                  <=> \/ IdsIn(m1, solution, source) = {}
                      \/ 2 * Cardinality(IdsIn(m1, solution, source)) < Cardinality(before)
             /\ result' # NoSol =>
                  /\ View(mem', result') = View(m1, solution)
                  /\ IdsIn(mem', result', source) \subseteq before
                  /\ \A id \in before :
                       ItemOf(mem', result', id).assigned_bin
                         \in {source, NoBin}
                               \cup {b \in BinIds(mem, solution) : IdsIn(mem, solution, b) # {}}
                  /\ \A id \in ItemIds(mem, solution) \ before :
                       ItemOf(mem', result', id).assigned_bin
                         \in {ItemOf(mem, solution, id).assigned_bin, NoBin}
                  /\ Len(mem'.S[result'].bins) = Len(mem.S[solution].bins)
       IN IF ConsolidateApplies(mem, solution)
          THEN relocated(Consolidated(mem, solution, source))
          ELSE result' = NoSol]_vars

\* consolidate_small_bins has returned a candidate whose source bin keeps
\* one of its three or more items, the others being in another bin
C26_Witness ==
  /\ lastCall # <<>> /\ lastCall.name = "consolidate_small_bins"
  /\ result # NoSol
  /\ ConsolidateApplies(mem, solution)
  /\ Cardinality(IdsIn(mem, solution, LeastUtilized(mem, solution))) >= 3
  /\ Cardinality(IdsIn(mem, result, LeastUtilized(mem, solution))) = 1
  /\ \E id \in IdsIn(mem, solution, LeastUtilized(mem, solution)) :
       ItemOf(mem, result, id).assigned_bin \notin {LeastUtilized(mem, solution), NoBin}

\* ids that name no item and no bin of Solution s ("None" is no bin's id)
UnknownItemIds(m, s) == {0, Len(m.S[s].all_items) + 1}

UnknownBinIds(m, s) == {NoBin, Len(m.S[s].bins), Len(m.S[s].bins) + 1}

\* What swap_items, move_item, rebalance_bins and merge_bins_aggressive
\* return on Solution s for every choice of ids with an id that names
\* nothing, an unassigned item, two items of one bin, an item and its own
\* bin, or one bin twice.
Misses(m, s) ==
  LET items == ItemIds(m, s) \cup UnknownItemIds(m, s)
      bins == BinIds(m, s) \cup UnknownBinIds(m, s)
      unknown(i) == i \in UnknownItemIds(m, s)
      loose(i) == unknown(i) \/ ~is_assigned(ItemOf(m, s, i))
  IN {swap_items(m, s, i, j) : <<i, j>> \in {p \in items \X items :
        \/ loose(p[1]) \/ loose(p[2])
        \/ ItemOf(m, s, p[1]).assigned_bin = ItemOf(m, s, p[2]).assigned_bin}}
     \cup {move_item(m, s, i, b) : <<i, b>> \in {p \in items \X bins :
        \/ loose(p[1])
        \/ p[2] \in UnknownBinIds(m, s)
        \/ ItemOf(m, s, p[1]).assigned_bin = p[2]}}
     \cup {rebalance_bins(m, s, p[1], p[2]) : p \in {q \in bins \X bins :
        q[1] \in UnknownBinIds(m, s) \/ q[2] \in UnknownBinIds(m, s) \/ q[1] = q[2]}}
     \cup {merge_bins_aggressive(m, s, p[1], p[2]) : p \in {q \in bins \X bins :
        q[1] \in UnknownBinIds(m, s) \/ q[2] \in UnknownBinIds(m, s) \/ q[1] = q[2]}}

\* C27: on every Solution held in a search run get_item_by_id and
\* get_bin_by_id return None for an id that names nothing, and swap_items,
\* move_item, rebalance_bins and merge_bins_aggressive return None, leaving
\* the heap as it is, for an unknown id, an unassigned item or the same bin
\* twice; the list LocalSearch.solve selects from holds no None; when
\* get_random_neighbor returns None to SimulatedAnnealing.solve (at the
\* first trial of the first two temperature levels), current_solution and
\* best_solution are as they were; and a solve that has ended has returned
\* a Solution.
C27_MissesAreNone ==
  /\ \A s \in Held :
       /\ \A i \in UnknownItemIds(mem, s) : get_item_by_id(mem, s, i) = 0
       /\ \A b \in UnknownBinIds(mem, s) : get_bin_by_id(mem, s, b) = 0
       /\ \A r \in Misses(mem, s) : r = None(mem)
  /\ pc = "ls" =>
       \A k \in 1..Len(all_neighbors(mem, current).neighbors) :
         all_neighbors(mem, current).neighbors[k] # NoSol
  /\ (pc = "sa" /\ level <= 1 /\ trial = 0) =>
       \A r \in RandomNeighbors(mem, current) :
         r.sol = NoSol =>
           /\ View(r.mem, current) = View(mem, current)
           /\ View(r.mem, best) = View(mem, best)
  /\ pc \in {"ls_done", "sa_done"} => result # NoSol

\* SimulatedAnnealing.solve has returned a Solution with an unassigned item
\* on which every operator returns None for every choice of ids
C27_Witness ==
  /\ pc = "sa_done"
  /\ result # NoSol
  /\ get_unpacked_items(mem, result) # <<>>
  /\ View(mem, result) = solView
  /\ \A r \in OperatorResults(mem, result) : r.sol = NoSol

\* the ids of the items of Solution s that are unassigned
UnassignedIds(m, s) ==
  {id \in ItemIds(m, s) : ~is_assigned(ItemOf(m, s, id))}

\* C28: every item that is unassigned in the Solution an operator is called
\* on is unassigned in the Solution the operator returns, whichever of the
\* five operators and whatever the ids; so when a caller goes on with a
\* returned Solution, as the search drivers do, the items that are
\* unassigned stay so and their number does not decrease.
C28_UnassignedAbsorbing ==
  [][/\ (calls' = calls + 1 /\ result' # NoSol) =>
          /\ UnassignedIds(mem, solution) \subseteq UnassignedIds(mem', result')
          /\ \A id \in UnassignedIds(mem, solution) :
               /\ ItemOf(mem', result', id).position = NoPos
               /\ \A b \in BinIds(mem', result') : id \notin IdsIn(mem', result', b)
     /\ (solution # NoSol /\ solution' # NoSol) =>
          /\ UnassignedIds(mem, solution) \subseteq UnassignedIds(mem', solution')
          /\ Cardinality(UnassignedIds(mem, solution))
               <= Cardinality(UnassignedIds(mem', solution'))]_vars

\* a caller that went on with a candidate in which an item is unassigned has
\* got a candidate from a second operator call in which one more item is
\* unassigned
C28_Witness ==
  /\ calls = 2
  /\ lastCall # <<>>
  /\ result # NoSol
  /\ UnassignedIds(mem, solution) # {}
  /\ UnassignedIds(mem, solution) \subseteq UnassignedIds(mem, result)
  /\ UnassignedIds(mem, solution) # UnassignedIds(mem, result)
  /\ \E id \in UnassignedIds(mem, solution) :
       Item_get_volume(ItemOf(mem, solution, id)) <= Bin_get_volume(mem.B[mem.S[solution].bins[1]])

\* Solution s has no unassigned item and no infeasible bin
NoneStranded(m, s) ==
  /\ get_unpacked_items(m, s) = <<>>
  /\ \A k \in 1..Len(m.S[s].bins) : is_feasible(m, m.S[s].bins[k])

\* C29: when LocalSearch.solve is started from a Solution with is_valid()
\* true, current_solution, best_solution and the Solution returned have no
\* unassigned item and no infeasible bin at any time; and every swap, move
\* or rebalance neighbor of current_solution that has an unassigned item has
\* a strictly higher fitness than current_solution, so that it is never
\* moved to.
C29_LocalSearchKeepsValid ==
  (pc \in {"ls", "ls_done"} /\ is_valid(mem, solution)) =>
    /\ \A s \in Held : NoneStranded(mem, s) /\ is_valid(mem, s)
    /\ pc = "ls" =>
         LET stranded_are_worse(all) ==
               \A k \in 1..Len(all.neighbors) :
                 ~NoneStranded(all.mem, all.neighbors[k]) =>
                   FitLess(Fit(all.mem, current), Fit(all.mem, all.neighbors[k]))
         IN stranded_are_worse(all_neighbors(mem, current))

\* LocalSearch.solve, started from a valid Solution, is at a valid
\* current_solution that has a neighbor with an unassigned item
C29_Witness ==
  /\ pc = "ls"
  /\ is_valid(mem, solution)
  /\ NoneStranded(mem, current)
  /\ \E k \in 1..Len(all_neighbors(mem, current).neighbors) :
       get_unpacked_items(all_neighbors(mem, current).mem,
                          all_neighbors(mem, current).neighbors[k]) # <<>>

\* ------------------------------------------------------------------------
\* C30: repacking a bin that first_fit_decreasing or a sorted
\* pack_items_in_bin into an empty bin filled
\* ------------------------------------------------------------------------
\* the id, position and rotation of every member of the i-th bin of Solution s
Placements(m, s, i) ==
  {[id |-> m.I[m.B[m.S[s].bins[i]].items[k]].id,
    position |-> m.I[m.B[m.S[s].bins[i]].items[k]].position,
    rotation |-> m.I[m.B[m.S[s].bins[i]].items[k]].rotation] :
     k \in 1..Len(m.B[m.S[s].bins[i]].items)}

\* The contents of the i-th bin of solution were produced by
\* first_fit_decreasing, or by the last call, a pack_items_in_bin with
\* sort_items=True that found the bin empty (every member was packed by it).
ProducedBySortedPacking(i) ==
  \/ pc = "ffd"
  \/ /\ pc = "pack" /\ calls >= 1
     /\ lastCall.name = "pack_items_in_bin"
     /\ lastCall.sort_items
     /\ lastCall.bin = i
     /\ Len(lastCall.packed) = Len(mem.B[mem.S[solution].bins[i]].items)

\* C30: when repack_bin is called on a bin whose contents were produced by
\* first_fit_decreasing or by pack_items_in_bin(sort_items=True) into an
\* empty bin, it packs every item of the bin again, its unpacked list is
\* empty, and every item has the position and the rotation it had before.
C30_RepackIdempotent ==
  [][(pc' = "repacked" /\ ProducedBySortedPacking(lastCall'.bin)) =>
       /\ lastCall'.unpacked = <<>>
       /\ {lastCall'.packed[k] : k \in 1..Len(lastCall'.packed)}
            = {p.id : p \in Placements(mem, solution, lastCall'.bin)}
       /\ Len(lastCall'.packed) = Len(mem.B[mem.S[solution].bins[lastCall'.bin]].items)
       /\ Placements(mem', solution', lastCall'.bin)
            = Placements(mem, solution, lastCall'.bin)]_vars

\* repack_bin has repacked a bin of a first_fit_decreasing Solution with
\* several members, one of them turned, and left none unpacked
C30_Witness ==
  /\ pc = "repacked" /\ calls = 0
  /\ lastCall.unpacked = <<>>
  /\ Len(lastCall.packed) >= 2
  /\ \E p \in Placements(mem, solution, lastCall.bin) : p.rotation # 0

====
